---- MODULE Spec2Model ----
(***************************************************************************)
(* Three-axis stepper controller (arduino/kousoku5/kousoku5.ino): the      *)
(* serial frame parser of loop(), the command handler processCommand, whose *)
(* statements run in the main context and can be preempted between any two *)
(* of them by a timer compare interrupt, and the step scheduler handleStep  *)
(* that those interrupts run to completion.                                 *)
(*                                                                          *)
(* Numbers.  The target is an AVR: unsigned int is 16 bits, unsigned long   *)
(* 32 bits, float is IEEE single.  Speeds (steps/s) are held in fixed point *)
(* with SpsScale units per step/s, accelerations with AccScale units per    *)
(* step/s^2; every float expression of the source is evaluated exactly and  *)
(* then truncated to that grid (finer than a float's grid in the range the  *)
(* model uses).  sqrtf is the one float operation whose rounding direction  *)
(* the model leaves open (SqrtChoices).                                     *)
(***************************************************************************)
EXTENDS Integers, Sequences, FiniteSets, TLC

\* ------------------------------------------------------------ constants
NumAxes == 3
Axes == 0 .. (NumAxes - 1)
FrameLen == 11
RespLen == 10
STX == 2
ETX == 3
HIGH == TRUE
LOW == FALSE
stepsPerRev == 200 * 2
InitRpm == 200
UInt16 == 256 * 256
Micro == 1000000

\* fixed point: 1 step/s = SpsScale units, 1 step/s^2 = AccScale units
SpsScale == 3 * 100000
\* targetRampTimeSec = 0.2 s: acceleration = dv / 0.2 = RampInv * dv
RampInv == 5
AccScale == SpsScale \div RampInv
minStartSpeedSps == 500 * SpsScale
InitAccel == 4000 * AccScale
OneSps == 1 * SpsScale
OneSps2 == 1 * AccScale
\* accel * dt in speed units = A * interval / DtDiv  (dt = interval / 2000000 s)
DtDiv == (2 * Micro) \div RampInv
\* v^2 / (2 a) in steps = V^2 / (StepDiv * A)
StepDiv == 2 * RampInv * SpsScale

\* ------------------------------------------------------------ arithmetic
Min(a, b) == IF a < b THEN a ELSE b
Max(a, b) == IF a > b THEN a ELSE b

\* <<q, r>> with a * b = q * c + r and 0 <= r < c, without forming a * b
\* (TLC's integers are 32 bits; the source forms these products in float).
RECURSIVE MulDivQR(_, _, _)
MulDivQR(a, b, c) ==
  IF b = 0 THEN <<0, 0>>
  ELSE LET h == MulDivQR(a, b \div 2, c)
           d == 2 * h[2]
           q2 == 2 * h[1] + (d \div c)
           r2 == d % c
           s == r2 + (a % c)
       IN IF b % 2 = 0 THEN <<q2, r2>>
          ELSE <<q2 + (a \div c) + (s \div c), s % c>>

\* floor(a * b / c)
MulDiv(a, b, c) == IF a >= b THEN MulDivQR(a, b, c)[1] ELSE MulDivQR(b, a, c)[1]

\* (unsigned int) of a non-negative value: the AVR build converts through a
\* 32-bit integer and keeps the low 16 bits
ToUInt16(x) == x % UInt16

\* (int) of an unsigned long: the low 16 bits, read as two's complement
ToInt16(x) == IF x % UInt16 >= UInt16 \div 2 THEN (x % UInt16) - UInt16 ELSE x % UInt16

\* (unsigned long)(x + 0.5f) for x = num / den >= 0, num given as floor(x * den)
RoundDiv(num, den) == (num + (den \div 2)) \div den

RECURSIVE ISqrtSearch(_, _, _)
\* the largest r in lo..hi with r * r <= n (lo * lo <= n assumed)
ISqrtSearch(n, lo, hi) ==
  IF lo >= hi THEN lo
  ELSE LET mid == (lo + hi + 1) \div 2
       IN IF mid * mid <= n THEN ISqrtSearch(n, mid, hi)
          ELSE ISqrtSearch(n, lo, mid - 1)

ISqrt(n) == ISqrtSearch(n, 0, Min(n, 46340))

\* ------------------------------------------------------------ bytes
RECURSIVE BitXor(_, _)
BitXor(a, b) ==
  IF a = 0 THEN b
  ELSE IF b = 0 THEN a
  ELSE ((a + b) % 2) + 2 * BitXor(a \div 2, b \div 2)

RECURSIVE XorRange(_, _, _)
\* cmd[lo] ^ ... ^ cmd[hi] over a 1-based sequence
XorRange(cmd, lo, hi) ==
  IF lo > hi THEN 0 ELSE BitXor(cmd[lo], XorRange(cmd, lo + 1, hi))

Chr(c) == CASE c = "0" -> 48 [] c = "1" -> 49 [] c = "2" -> 50 [] c = "3" -> 51
            [] c = "4" -> 52 [] c = "+" -> 43 [] c = "-" -> 45
            [] c = "M" -> 77 [] c = "S" -> 83 [] c = "F" -> 70 [] c = "R" -> 82
            [] c = "V" -> 86 [] c = "E" -> 69 [] c = "D" -> 68 [] c = "A" -> 65
            [] c = "C" -> 67 [] c = "X" -> 88 [] c = "Z" -> 90

IsDigit(b) == b >= 48 /\ b <= 57

RECURSIVE AtolDigits(_, _, _)
\* atol over the 6 value bytes: decimal digits up to the first non-digit
AtolDigits(cmd, k, acc) ==
  IF k > 9 \/ ~IsDigit(cmd[k]) THEN acc
  ELSE AtolDigits(cmd, k + 1, 10 * acc + (cmd[k] - 48))

Atol(cmd) ==
  IF cmd[4] = 45 THEN 0 - AtolDigits(cmd, 5, 0)
  ELSE IF cmd[4] = 43 THEN AtolDigits(cmd, 5, 0)
  ELSE AtolDigits(cmd, 4, 0)

RECURSIVE Digits(_, _)
\* n as k decimal digits (ASCII), most significant first
Digits(n, k) ==
  IF k = 0 THEN <<>> ELSE Append(Digits(n \div 10, k - 1), 48 + (n % 10))

\* ------------------------------------------------------------ conversions
\* rpmToIntervalUs: (unsigned int)(1000000.0 / ((rpm * stepsPerRev) / 60.0))
rpmToIntervalUs(rpm) ==
  IF rpm <= 0 THEN 0 ELSE ToUInt16((60 * Micro) \div (rpm * stepsPerRev))

\* the largest speed the fixed point holds: 7000 steps/s, reached at RpmCeil;
\* a faster target is held as SpsCeil, and no specification below lets the
\* speed update or the planner read a target that was clipped
SpsCeil == 7000 * SpsScale
RpmCeil == (60 * 7000) \div stepsPerRev

\* rpmToSps: rpm * stepsPerRev / 60 steps/s
rpmToSps(rpm) ==
  IF rpm <= 0 THEN 0
  ELSE IF rpm > RpmCeil THEN SpsCeil
  ELSE rpm * ((stepsPerRev * SpsScale) \div 60)

\* spsToIntervalUs: (unsigned int)(1000000.0f / sps)
spsToIntervalUs(sps) ==
  IF sps <= 0 THEN 0 ELSE ToUInt16(MulDiv(Micro, SpsScale, sps))

\* OCRnA as setupTimerN writes it: (16 * interval_us / 2) - 1 in unsigned int
SetupOcr(interval) == ((((16 * interval) % UInt16) \div 2) + (UInt16 - 1)) % UInt16

\* OCRnA as handleStep writes it: (uint16_t)((16UL * interval / 2UL) - 1UL)
IsrOcr(interval) == (8 * interval + (UInt16 - 1)) % UInt16

\* accel * dt with dt = (float)stepInterval / 2000000.0f
AccelDt(accel, interval) == MulDiv(accel, interval, DtDiv)

Coarse == 10 * 100
\* floor(v * v / (2 a)) in steps, v truncated to Coarse units
StopSteps(v, accel) ==
  MulDiv(v \div Coarse, v \div Coarse, accel) \div (StepDiv \div (Coarse * Coarse))

\* (unsigned long)((v1*v1 - v0*v0) / (2 a) + 0.5f) for v1 > v0
RampSteps(v1, v0, accel) ==
  IF v1 - v0 <= accel
  THEN RoundDiv(MulDiv(v1 - v0, v1 + v0, accel), StepDiv)
  ELSE RoundDiv(MulDiv((v1 - v0) \div Coarse, (v1 + v0) \div Coarse, accel),
                StepDiv \div (Coarse * Coarse))

\* ------------------------------------------------------------ axis state
\* the power-on values of the per-axis globals after setup()
AxisInit ==
  [ stepHigh |-> FALSE, stepPin |-> LOW, dirPin |-> HIGH, enaPin |-> LOW,
    ocr |-> SetupOcr(rpmToIntervalUs(InitRpm)),
    stepInterval |-> rpmToIntervalUs(InitRpm),
    motorEnabled |-> FALSE, remainingSteps |-> 0,
    pendingIntervalUpdate |-> FALSE, pendingIntervalUs |-> 0,
    planActive |-> FALSE, planTotalSteps |-> 0, planStepsDone |-> 0,
    planAccelSteps |-> 0, planCruiseSteps |-> 0, planDecelSteps |-> 0,
    planPeakSpeedSps |-> 0,
    useTrapezoid |-> FALSE, currentSpeedSps |-> 0,
    targetSpeedSps |-> rpmToSps(InitRpm), accelerationSps2 |-> InitAccel ]

\* ------------------------------------------------------------ handleStep
\* a rising edge that counts down without testing remainingSteps > 0
RisingEdgeNoTest(a) ==
  LET r == IF a.remainingSteps > 0 THEN a.remainingSteps - 1 ELSE 0
  IN [a EXCEPT !.stepPin = HIGH, !.remainingSteps = r,
               !.enaPin = IF r = 0 THEN HIGH ELSE @,
               !.motorEnabled = (r # 0),
               !.planActive = IF r = 0 THEN FALSE ELSE @]

\* lines 313-335: the rising edge
RisingEdge(a) ==
  LET a1 == [a EXCEPT !.stepPin = HIGH]
      a2 == IF a1.remainingSteps > 0
            THEN LET r == a1.remainingSteps - 1
                     b == [a1 EXCEPT !.remainingSteps = r,
                                     !.planStepsDone =
                                        IF a1.planActive THEN @ + 1 ELSE @]
                 IN IF r = 0
                    THEN [b EXCEPT !.enaPin = HIGH, !.motorEnabled = FALSE,
                                   !.planActive = FALSE]
                    ELSE b
            ELSE a1
  IN IF a2.pendingIntervalUpdate
     THEN IF a2.pendingIntervalUs > 0
          THEN [a2 EXCEPT !.pendingIntervalUpdate = FALSE,
                          !.stepInterval = a2.pendingIntervalUs,
                          !.ocr = IsrOcr(a2.pendingIntervalUs)]
          ELSE [a2 EXCEPT !.pendingIntervalUpdate = FALSE]
     ELSE a2

\* a ramp that adds half the increment
TrackTargetHalf(cur, target, inc) ==
  IF target > 0 /\ cur < target THEN Min(cur + (inc \div 2), target)
  ELSE IF target > 0 THEN target
  ELSE cur

\* ramp toward the target (lines 354-359 and 392-397)
TrackTarget(cur, target, inc) ==
  IF target > 0 /\ cur < target THEN Min(cur + inc, target)
  ELSE IF target > 0 THEN target
  ELSE cur

\* decelerate toward the minimum start speed (lines 378-379 and 389-390)
Decelerate(cur, inc) ==
  IF cur - inc < minStartSpeedSps THEN minStartSpeedSps ELSE cur - inc

\* lines 341-411: the speed update of one half period
Trapezoid(a) ==
  LET accel == Max(a.accelerationSps2, OneSps2)
      cur0 == IF a.currentSpeedSps < OneSps THEN minStartSpeedSps
              ELSE a.currentSpeedSps
      inc == AccelDt(accel, a.stepInterval)
      cur1 ==
        IF a.remainingSteps = 0 THEN TrackTarget(cur0, a.targetSpeedSps, inc)
        ELSE IF a.planActive
        THEN IF a.planStepsDone < a.planAccelSteps
             THEN IF cur0 < a.planPeakSpeedSps
                  THEN Min(cur0 + inc, a.planPeakSpeedSps) ELSE cur0
             ELSE IF a.planStepsDone < a.planAccelSteps + a.planCruiseSteps
             THEN a.planPeakSpeedSps
             ELSE Decelerate(cur0, inc)
        ELSE IF a.remainingSteps - 1 <= StopSteps(cur0, accel)
             THEN Decelerate(cur0, inc)
             ELSE TrackTarget(cur0, a.targetSpeedSps, inc)
      newInterval == spsToIntervalUs(cur1)
      b == [a EXCEPT !.currentSpeedSps = cur1]
  IN IF newInterval > 0 /\ newInterval # a.stepInterval
     THEN [b EXCEPT !.stepInterval = newInterval, !.ocr = IsrOcr(newInterval)]
     ELSE b

\* a tick that does not test motorEnabled
handleStepNoGuard(a) ==
  LET a1 == [a EXCEPT !.stepHigh = ~a.stepHigh]
  IN IF a1.stepHigh THEN [a1 EXCEPT !.stepPin = HIGH] ELSE [a1 EXCEPT !.stepPin = LOW]

\* handleStep(idx), run to completion by ISR(TIMERn_COMPA_vect)
handleStep(a) ==
  IF ~a.motorEnabled THEN a
  ELSE LET a1 == [a EXCEPT !.stepHigh = ~a.stepHigh]
           a2 == IF a1.stepHigh THEN RisingEdge(a1)
                 ELSE [a1 EXCEPT !.stepPin = LOW]
       IN IF a2.useTrapezoid /\ a2.motorEnabled THEN Trapezoid(a2) ELSE a2

\* ------------------------------------------------------------ planner
Third == SpsScale \div 3
Fine == 10 * 10

\* 9 v^2 in (step/s)^2, v truncated to Fine units
Sq9(v) == MulDiv(v \div Fine, v \div Fine, (Third \div Fine) * (Third \div Fine))

\* the peak without the factor 0.5f on v0*v0 + vend*vend
PeakSq9Whole(accel, total, v0, vend) ==
  Max(MulDiv(9 * RampInv * total, accel, SpsScale) + Sq9(v0) + Sq9(vend), Sq9(v0))

\* 9 s for s = a * total + (v0*v0 + vend*vend) * 0.5f, floored at v0*v0
PeakSq9(accel, total, v0, vend) ==
  Max(MulDiv(9 * RampInv * total, accel, SpsScale) + ((Sq9(v0) + Sq9(vend)) \div 2),
      Sq9(v0))

\* (ph * Third + pl)^2 <= (ph * ph + d) * Third^2
FracFits(ph, d, pl) ==
  LET qr == MulDivQR(pl, pl, Third)
  IN (d * Third) - (2 * ph * pl) >= qr[1] + (IF qr[2] > 0 THEN 1 ELSE 0)

RECURSIVE FracSearch(_, _, _, _)
FracSearch(ph, d, lo, hi) ==
  IF lo >= hi THEN lo
  ELSE LET mid == (lo + hi + 1) \div 2
       IN IF FracFits(ph, d, mid) THEN FracSearch(ph, d, mid, hi)
          ELSE FracSearch(ph, d, lo, mid - 1)

\* sqrtf(s) in speed units: the floor, or (up = 1, s no perfect square) the
\* next value above it; which of the two a float sqrt rounds to is left open
SqrtChoices == {0, 1}
PeakSqrt(s9, up) ==
  LET ph == ISqrt(s9)
      d == s9 - ph * ph
      pl == FracSearch(ph, d, 0, Third - 1)
  IN ph * Third + pl + (IF d > 0 THEN up ELSE 0)

\* lines 624-636: the unconstrained accel and decel distances of the planner
PlanRamps(a) ==
  LET acc == Max(a.accelerationSps2, OneSps2)
      v0 == a.currentSpeedSps
      vtar == a.targetSpeedSps
  IN [ acc |-> acc, v0 |-> v0, vtar |-> vtar,
       accelStepsUL |-> IF vtar > v0 THEN RampSteps(vtar, v0, acc) ELSE 0,
       decelStepsUL |-> IF vtar > minStartSpeedSps
                        THEN RampSteps(vtar, minStartSpeedSps, acc) ELSE 0 ]

\* a planner whose cruise phase forgets the decel distance
PlanShapeNoDecel(r, total, up) ==
  [ total |-> total, peak |-> r.vtar, accelStepsUL |-> r.accelStepsUL,
    cruiseStepsUL |-> IF total > r.accelStepsUL THEN total - r.accelStepsUL ELSE 0,
    decelStepsUL |-> r.decelStepsUL ]

\* lines 637-655: trapezoid or triangle for total steps
PlanShape(r, total, up) ==
  IF total >= r.accelStepsUL + r.decelStepsUL
  THEN [ total |-> total, peak |-> r.vtar, accelStepsUL |-> r.accelStepsUL,
         cruiseStepsUL |-> total - r.accelStepsUL - r.decelStepsUL,
         decelStepsUL |-> r.decelStepsUL ]
  ELSE LET peak == PeakSqrt(PeakSq9(r.acc, total, r.v0, minStartSpeedSps), up)
           acc2 == IF peak > r.v0 THEN RampSteps(peak, r.v0, r.acc) ELSE 0
       IN [ total |-> total, peak |-> peak, accelStepsUL |-> acc2,
            cruiseStepsUL |-> 0,
            decelStepsUL |-> IF total > acc2 THEN total - acc2 ELSE 0 ]

\* ------------------------------------------------------------ processCommand
\* a checksum test that ignores the top bit of the checksum
ChecksumLow7(cmd) == XorRange(cmd, 2, 9) % 128 = cmd[10] % 128

\* lines 585-587: the XOR of cmd[1..8] against cmd[9]
ChecksumOk(cmd) == XorRange(cmd, 2, 9) = cmd[10]

\* a decoder that takes the pump number itself for the index
DecodeShift(cmd) ==
  [ ok |-> /\ cmd[1] = STX
           /\ cmd[FrameLen] = ETX
           /\ ChecksumOk(cmd)
           /\ cmd[2] - 48 >= 1
           /\ cmd[2] - 48 <= NumAxes,
    idx |-> (cmd[2] - 48) % NumAxes,
    action |-> cmd[3],
    value |-> Atol(cmd) ]

\* lines 583-597: frame validation and decoding
Decode(cmd) ==
  [ ok |-> /\ cmd[1] = STX
           /\ cmd[FrameLen] = ETX
           /\ ChecksumOk(cmd)
           /\ cmd[2] - 48 >= 1
           /\ cmd[2] - 48 <= NumAxes,
    idx |-> cmd[2] - 49,
    action |-> cmd[3],
    value |-> Atol(cmd) ]

LocInit ==
  [ idx |-> 0, action |-> 0, value |-> 0,
    ramps |-> [acc |-> 0, v0 |-> 0, vtar |-> 0, accelStepsUL |-> 0, decelStepsUL |-> 0],
    shape |-> [total |-> 0, peak |-> 0, accelStepsUL |-> 0, cruiseStepsUL |-> 0,
               decelStepsUL |-> 0] ]

\* a dispatch whose Set-speed branch does not test value > 0
EntryAnySpeed(action, value, a) ==
  CASE action = Chr("M") -> "M_ena"
    [] action = Chr("S") -> "S_en"
    [] action = Chr("F") -> "F_dir"
    [] action = Chr("R") -> "R_dir"
    [] action = Chr("V") -> IF a.useTrapezoid THEN "V_tar" ELSE "V_int"
    [] action = Chr("E") -> "E_ena"
    [] action = Chr("D") -> "D_ena"
    [] action = Chr("A") -> "A_set"
    [] action = Chr("C") -> "C_reply"
    [] action = Chr("X") -> "X_reply"
    [] OTHER -> "ret"

\* a dispatch whose last branch takes every other action code for a Stop
EntryElseStop(action, value, a) ==
  CASE action = Chr("M") -> "M_ena"
    [] action = Chr("F") -> "F_dir"
    [] action = Chr("R") -> "R_dir"
    [] action = Chr("V") -> IF value > 0
                            THEN IF a.useTrapezoid THEN "V_tar" ELSE "V_int"
                            ELSE "ret"
    [] action = Chr("E") -> "E_ena"
    [] action = Chr("D") -> "D_ena"
    [] action = Chr("A") -> "A_set"
    [] action = Chr("C") -> "C_reply"
    [] action = Chr("X") -> "X_reply"
    [] OTHER -> "S_en"

\* the first statement of the branch of an action code (lines 599-752)
Entry(action, value, a) ==
  CASE action = Chr("M") -> "M_ena"
    [] action = Chr("S") -> "S_en"
    [] action = Chr("F") -> "F_dir"
    [] action = Chr("R") -> "R_dir"
    [] action = Chr("V") -> IF value > 0
                            THEN IF a.useTrapezoid THEN "V_tar" ELSE "V_int"
                            ELSE "ret"
    [] action = Chr("E") -> "E_ena"
    [] action = Chr("D") -> "D_ena"
    [] action = Chr("A") -> "A_set"
    [] action = Chr("C") -> "C_reply"
    [] action = Chr("X") -> "X_reply"
    [] OTHER -> "ret"

\* calculateRPM: 60000 / rotationTimeMs returned as int, 0 when unmeasured
calculateRPM(rot) == IF rot > 0 THEN ToInt16(60000 \div rot) ELSE 0

\* a format that pads the digits, not the field, to 6
Fmt06dWide(n) == IF n < 0 THEN <<Chr("-")>> \o Digits(0 - n, 6) ELSE Digits(n, 6)

\* sprintf(rpmStr, "%06d", rpm) for a 16-bit int: the sign counts in the width
Fmt06d(n) == IF n < 0 THEN <<Chr("-")>> \o Digits(0 - n, 5) ELSE Digits(n, 6)

\* the 10 response bytes of a C or X query (lines 728-745, 754-775)
Response(idx, field) ==
  LET body == <<idx + 49>> \o field
  IN <<STX>> \o body \o <<XorRange(body, 1, 7), ETX>>

DummyCurrent == <<Chr("+"), 48, 48, 48, 48, 48>>

Step(a, p, l) == [a |-> a, pc |-> p, loc |-> l, out |-> <<>>]

\* the acceleration left at its initial value
RampAccelDefault(target, base) == InitAccel

\* dv / targetRampTimeSec without the floor
RampAccelNoFloor(target, base) == target - base

\* acceleration that reaches target from base in targetRampTimeSec, floored
\* (lines 611-613 and 696-698; the floor is taken in the step of the write:
\* the one reader that may run in between, handleStep, floors its own copy
\* at line 343)
RampAccel(target, base) == Max(target - base, OneSps2)

\* a start speed that is never lowered to the target
CapAtTargetNever(cur, target) == cur

\* lines 606-608: the start speed is the target when that is lower
CapAtTarget(cur, target) == IF target > 0 /\ target < cur THEN target ELSE cur

\* a constant-speed Start that leaves the timer as it finds it
StartBranchNoTimer(a) == IF a.useTrapezoid THEN "M_cur" ELSE "M_np1"

\* line 603: the ramp branch under trapezoid mode, else the constant-speed
\* branch of lines 668-677
StartBranch(a) == IF a.useTrapezoid THEN "M_cur" ELSE "M_tim0"

\* action 'M' (lines 599-677), one statement per label
ExecM(p, a, l, up) ==
  CASE p = "M_ena" -> Step([a EXCEPT !.enaPin = LOW], "M_rem", l)
    [] p = "M_rem" -> Step([a EXCEPT !.remainingSteps =
                               IF l.value > 0 THEN l.value ELSE 0], "M_en", l)
    [] p = "M_en" -> Step([a EXCEPT !.motorEnabled = TRUE], StartBranch(a), l)
    [] p = "M_cur" -> Step([a EXCEPT !.currentSpeedSps = minStartSpeedSps], "M_cur2", l)
    [] p = "M_cur2" -> Step([a EXCEPT !.currentSpeedSps =
                                CapAtTarget(a.currentSpeedSps, a.targetSpeedSps)],
                            "M_acc", l)
    [] p = "M_acc" -> Step(IF a.targetSpeedSps > a.currentSpeedSps
                           THEN [a EXCEPT !.accelerationSps2 =
                                   RampAccel(a.targetSpeedSps, a.currentSpeedSps)]
                           ELSE a, "M_int", l)
    [] p = "M_int" -> Step([a EXCEPT !.stepInterval =
                               spsToIntervalUs(a.currentSpeedSps)], "M_tim", l)
    [] p = "M_tim" -> Step([a EXCEPT !.ocr = SetupOcr(a.stepInterval)], "M_plan1", l)
    [] p = "M_plan1" -> IF a.remainingSteps > 0 /\ a.targetSpeedSps > 0
                        THEN Step(a, "M_plan2", [l EXCEPT !.ramps = PlanRamps(a)])
                        ELSE Step(a, "M_np1", l)
    [] p = "M_plan2" -> Step(a, "M_pAct",
                             [l EXCEPT !.shape =
                                PlanShape(l.ramps, a.remainingSteps, up)])
    [] p = "M_pAct" -> Step([a EXCEPT !.planActive = TRUE], "M_pTot", l)
    [] p = "M_pTot" -> Step([a EXCEPT !.planTotalSteps = l.shape.total], "M_pDone", l)
    [] p = "M_pDone" -> Step([a EXCEPT !.planStepsDone = 0], "M_pAcc", l)
    [] p = "M_pAcc" -> Step([a EXCEPT !.planAccelSteps = l.shape.accelStepsUL],
                            "M_pCru", l)
    [] p = "M_pCru" -> Step([a EXCEPT !.planCruiseSteps = l.shape.cruiseStepsUL],
                            "M_pDec", l)
    [] p = "M_pDec" -> Step([a EXCEPT !.planDecelSteps = l.shape.decelStepsUL],
                            "M_pPeak", l)
    [] p = "M_pPeak" -> Step([a EXCEPT !.planPeakSpeedSps = l.shape.peak], "ret", l)
    [] p = "M_np1" -> Step([a EXCEPT !.planActive = FALSE], "M_np2", l)
    [] p = "M_np2" -> Step([a EXCEPT !.planStepsDone = 0], "ret", l)
    [] p = "M_tim0" -> Step([a EXCEPT !.ocr = SetupOcr(a.stepInterval)], "M_np1", l)

\* a Stop that keeps the stored speed
ExecSKeepSpeed(p, a, l) ==
  CASE p = "S_en" -> Step([a EXCEPT !.motorEnabled = FALSE], "S_ena", l)
    [] p = "S_ena" -> Step([a EXCEPT !.enaPin = HIGH], "S_rem", l)
    [] p = "S_rem" -> Step([a EXCEPT !.remainingSteps = 0], "S_cur", l)
    [] p = "S_cur" -> Step(a, "S_pAct", l)
    [] p = "S_pAct" -> Step([a EXCEPT !.planActive = FALSE], "S_pDone", l)
    [] p = "S_pDone" -> Step([a EXCEPT !.planStepsDone = 0], "ret", l)

\* action 'S' (lines 678-684)
ExecS(p, a, l) ==
  CASE p = "S_en" -> Step([a EXCEPT !.motorEnabled = FALSE], "S_ena", l)
    [] p = "S_ena" -> Step([a EXCEPT !.enaPin = HIGH], "S_rem", l)
    [] p = "S_rem" -> Step([a EXCEPT !.remainingSteps = 0], "S_cur", l)
    [] p = "S_cur" -> Step([a EXCEPT !.currentSpeedSps = 0], "S_pAct", l)
    [] p = "S_pAct" -> Step([a EXCEPT !.planActive = FALSE], "S_pDone", l)
    [] p = "S_pDone" -> Step([a EXCEPT !.planStepsDone = 0], "ret", l)

\* a Disable that also stops the step generation
ExecPinRelease(p, a, l) ==
  CASE p = "F_dir" -> Step([a EXCEPT !.dirPin = HIGH], "ret", l)
    [] p = "R_dir" -> Step([a EXCEPT !.dirPin = LOW], "ret", l)
    [] p = "E_ena" -> Step([a EXCEPT !.enaPin = LOW], "ret", l)
    [] p = "D_ena" -> Step([a EXCEPT !.enaPin = HIGH, !.motorEnabled = FALSE], "ret", l)

\* actions 'F', 'R', 'E', 'D' (lines 685-688, 708-711)
ExecPin(p, a, l) ==
  CASE p = "F_dir" -> Step([a EXCEPT !.dirPin = HIGH], "ret", l)
    [] p = "R_dir" -> Step([a EXCEPT !.dirPin = LOW], "ret", l)
    [] p = "E_ena" -> Step([a EXCEPT !.enaPin = LOW], "ret", l)
    [] p = "D_ena" -> Step([a EXCEPT !.enaPin = HIGH], "ret", l)

\* a Set-speed that reprograms the compare register at once
ExecVSync(p, a, l) ==
  CASE p = "V_tar" -> Step([a EXCEPT !.targetSpeedSps = rpmToSps(l.value)], "V_acc", l)
    [] p = "V_acc" ->
         LET base == IF a.currentSpeedSps > OneSps THEN a.currentSpeedSps
                     ELSE minStartSpeedSps
         IN Step(IF a.targetSpeedSps > base
                 THEN [a EXCEPT !.accelerationSps2 = RampAccel(a.targetSpeedSps, base)]
                 ELSE a, "ret", l)
    [] p = "V_int" -> Step([a EXCEPT !.stepInterval = rpmToIntervalUs(l.value),
                                     !.ocr = SetupOcr(rpmToIntervalUs(l.value))],
                           "V_pUs", l)
    [] p = "V_pUs" -> Step([a EXCEPT !.pendingIntervalUs = rpmToIntervalUs(l.value)],
                           "V_pUp", l)
    [] p = "V_pUp" -> Step([a EXCEPT !.pendingIntervalUpdate = TRUE], "V_tar2", l)
    [] p = "V_tar2" -> Step([a EXCEPT !.targetSpeedSps = rpmToSps(l.value)], "ret", l)

\* action 'V' with value > 0 (lines 689-707)
ExecV(p, a, l) ==
  CASE p = "V_tar" -> Step([a EXCEPT !.targetSpeedSps = rpmToSps(l.value)], "V_acc", l)
    [] p = "V_acc" ->
         LET base == IF a.currentSpeedSps > OneSps THEN a.currentSpeedSps
                     ELSE minStartSpeedSps
         IN Step(IF a.targetSpeedSps > base
                 THEN [a EXCEPT !.accelerationSps2 = RampAccel(a.targetSpeedSps, base)]
                 ELSE a, "ret", l)
    [] p = "V_int" -> Step([a EXCEPT !.stepInterval = rpmToIntervalUs(l.value)],
                           "V_pUs", l)
    [] p = "V_pUs" -> Step([a EXCEPT !.pendingIntervalUs = rpmToIntervalUs(l.value)],
                           "V_pUp", l)
    [] p = "V_pUp" -> Step([a EXCEPT !.pendingIntervalUpdate = TRUE], "V_tar2", l)
    [] p = "V_tar2" -> Step([a EXCEPT !.targetSpeedSps = rpmToSps(l.value)], "ret", l)

\* a trapezoid-off that reprograms the timer from the new interval
ExecAResync(p, a, l) ==
  CASE p = "A_set" -> Step([a EXCEPT !.useTrapezoid = (l.value # 0)],
                           IF l.value # 0 THEN "ret"
                           ELSE IF a.targetSpeedSps > 0 THEN "A_cur" ELSE "A_pAct", l)
    [] p = "A_cur" -> Step([a EXCEPT !.currentSpeedSps = a.targetSpeedSps], "A_int", l)
    [] p = "A_int" -> Step([a EXCEPT !.stepInterval = spsToIntervalUs(a.targetSpeedSps),
                                     !.ocr = SetupOcr(spsToIntervalUs(a.targetSpeedSps))],
                           "A_pUs", l)
    [] p = "A_pUs" -> Step([a EXCEPT !.pendingIntervalUs =
                               spsToIntervalUs(a.targetSpeedSps)], "A_pUp", l)
    [] p = "A_pUp" -> Step([a EXCEPT !.pendingIntervalUpdate = TRUE], "A_pAct", l)
    [] p = "A_pAct" -> Step([a EXCEPT !.planActive = FALSE], "A_pDone", l)
    [] p = "A_pDone" -> Step([a EXCEPT !.planStepsDone = 0], "ret", l)

\* action 'A' (lines 712-725)
ExecA(p, a, l) ==
  CASE p = "A_set" -> Step([a EXCEPT !.useTrapezoid = (l.value # 0)],
                           IF l.value # 0 THEN "ret"
                           ELSE IF a.targetSpeedSps > 0 THEN "A_cur" ELSE "A_pAct", l)
    [] p = "A_cur" -> Step([a EXCEPT !.currentSpeedSps = a.targetSpeedSps], "A_int", l)
    [] p = "A_int" -> Step([a EXCEPT !.stepInterval =
                               spsToIntervalUs(a.targetSpeedSps)], "A_pUs", l)
    [] p = "A_pUs" -> Step([a EXCEPT !.pendingIntervalUs =
                               spsToIntervalUs(a.targetSpeedSps)], "A_pUp", l)
    [] p = "A_pUp" -> Step([a EXCEPT !.pendingIntervalUpdate = TRUE], "A_pAct", l)
    [] p = "A_pAct" -> Step([a EXCEPT !.planActive = FALSE], "A_pDone", l)
    [] p = "A_pDone" -> Step([a EXCEPT !.planStepsDone = 0], "ret", l)

\* actions 'C' and 'X' (lines 726-782): the reply handed to Serial.write
ExecQuery(p, a, l, rot) ==
  CASE p = "C_reply" -> [Step(a, "ret", l) EXCEPT !.out = Response(l.idx, DummyCurrent)]
    [] p = "X_reply" -> [Step(a, "ret", l) EXCEPT
                           !.out = Response(l.idx, Fmt06d(calculateRPM(rot)))]

LabelsM == {"M_ena", "M_rem", "M_en", "M_cur", "M_cur2", "M_acc", "M_int", "M_tim",
            "M_plan1", "M_plan2", "M_pAct", "M_pTot", "M_pDone", "M_pAcc", "M_pCru",
            "M_pDec", "M_pPeak", "M_np1", "M_np2", "M_tim0"}
LabelsS == {"S_en", "S_ena", "S_rem", "S_cur", "S_pAct", "S_pDone"}
LabelsPin == {"F_dir", "R_dir", "E_ena", "D_ena"}
LabelsV == {"V_tar", "V_acc", "V_int", "V_pUs", "V_pUp", "V_tar2"}
LabelsA == {"A_set", "A_cur", "A_int", "A_pUs", "A_pUp", "A_pAct", "A_pDone"}

\* one statement of processCommand at label p on the addressed axis a
Exec(p, a, l, rot, up) ==
  IF p \in LabelsM THEN ExecM(p, a, l, up)
  ELSE IF p \in LabelsS THEN ExecS(p, a, l)
  ELSE IF p \in LabelsPin THEN ExecPin(p, a, l)
  ELSE IF p \in LabelsV THEN ExecV(p, a, l)
  ELSE IF p \in LabelsA THEN ExecA(p, a, l)
  ELSE ExecQuery(p, a, l, rot)

\* ------------------------------------------------------------ 1 ms timer
RECURSIVE DecDigits(_)
\* the decimal digits of n >= 0, no padding
DecDigits(n) ==
  IF n < 10 THEN <<48 + n>> ELSE Append(DecDigits(n \div 10), 48 + (n % 10))

\* Serial.print(int) followed by Serial.println(): the number and CR LF
PrintLine(n) ==
  (IF n < 0 THEN <<Chr("-")>> \o DecDigits(0 - n) ELSE DecDigits(n)) \o <<13, 10>>

\* a 1 ms tick whose leak poll disables every axis when the sensor reads LOW
Timer1StopOnLeak(axes, c, leak, rot0) ==
  LET ms == c.msCounter + 1
      sec == IF ms % 1000 = 0 THEN c.oneSecondCounter + 1 ELSE c.oneSecondCounter
  IN [ ax |-> IF ms % 20 = 0 /\ leak = LOW
              THEN [i \in DOMAIN axes |-> [axes[i] EXCEPT !.motorEnabled = FALSE]]
              ELSE axes,
       clk |-> [msCounter |-> ms, oneSecondCounter |-> sec,
                debugLed |-> IF ms % 20 = 0 THEN (leak = LOW) ELSE c.debugLed],
       out |-> IF ms % 1000 = 0 /\ sec % 5 = 0
               THEN PrintLine(calculateRPM(rot0)) ELSE <<>> ]

\* ISR(TIMER1_COMPA_vect), lines 475-504: the millisecond and second
\* counters, the RPM line every 5 s, and every 20 ms the debug LED set to
\* isLeakDetected(0) (sensor pin LOW: leak)
Timer1(axes, c, leak, rot0) ==
  LET ms == c.msCounter + 1
      sec == IF ms % 1000 = 0 THEN c.oneSecondCounter + 1 ELSE c.oneSecondCounter
  IN [ ax |-> axes,
       clk |-> [msCounter |-> ms, oneSecondCounter |-> sec,
                debugLed |-> IF ms % 20 = 0 THEN (leak = LOW) ELSE c.debugLed],
       out |-> IF ms % 1000 = 0 /\ sec % 5 = 0
               THEN PrintLine(calculateRPM(rot0)) ELSE <<>> ]

\* ------------------------------------------------------------ host frames
RECURSIVE Pow2(_)
Pow2(n) == IF n = 0 THEN 1 ELSE 2 * Pow2(n - 1)

\* the 11 bytes of a command frame: STX, pump digit, action, 6 digits, XOR, ETX
HostFrame(pump, action, value) ==
  LET body == <<48 + pump, action>> \o Digits(value, 6)
  IN <<STX>> \o body \o <<XorRange(body, 1, 8), ETX>>

\* frame f with bit b of its byte k (1-based) inverted
FlipBit(f, k, b) == [f EXCEPT ![k] = BitXor(@, Pow2(b))]

Valid(pump, action, value) ==
  [bytes |-> HostFrame(pump, Chr(action), value), kind |-> "valid"]

\* a well-formed frame whose value field is '-' and five digits (atol reads
\* the sign)
Negative(pump, action, value) ==
  LET body == <<48 + pump, Chr(action), Chr("-")>> \o Digits(value, 5)
  IN [bytes |-> <<STX>> \o body \o <<XorRange(body, 1, 8), ETX>>, kind |-> "valid"]

\* ------------------------------------------------------------ current telemetry
\* The sampling and averaging of the motor currents is not part of
\* kousoku5.ino (its 'C' reply is a fixed string); the channel below follows
\* section 4.4 of the specification: a ring of BufferSize integer milliamp
\* samples, a write cursor, a full flag and a cached mean kept as the pair
\* sum / count (count = 0: no sample yet, mean zero).
BufferSize == 50

ChannelInit ==
  [ samples |-> [k \in 0 .. (BufferSize - 1) |-> 0], writeIndex |-> 0,
    bufferFull |-> FALSE, avgSum |-> 0, avgCount |-> 0 ]

\* a store that never wraps the cursor
StoreSampleNoWrap(c, mA) ==
  IF c.writeIndex >= BufferSize - 1
  THEN [c EXCEPT !.samples[BufferSize - 1] = mA, !.writeIndex = BufferSize - 1,
                 !.bufferFull = TRUE]
  ELSE [c EXCEPT !.samples[c.writeIndex] = mA, !.writeIndex = c.writeIndex + 1]

\* every 2 ms: store the sample at the cursor, advance the cursor modulo the
\* capacity, mark the buffer full once the cursor has wrapped
StoreSample(c, mA) ==
  [c EXCEPT !.samples[c.writeIndex] = mA,
            !.writeIndex = (c.writeIndex + 1) % BufferSize,
            !.bufferFull = @ \/ (c.writeIndex + 1 = BufferSize)]

\* the number of valid samples: the capacity if wrapped, else those written
ValidCount(c) == IF c.bufferFull THEN BufferSize ELSE c.writeIndex

RECURSIVE SumFirst(_, _)
\* samples[0] + ... + samples[n - 1]
SumFirst(samples, n) == IF n = 0 THEN 0 ELSE samples[n - 1] + SumFirst(samples, n - 1)

\* every 100 ms: recompute and cache the mean of the valid samples
UpdateAverage(c) ==
  [c EXCEPT !.avgSum = SumFirst(c.samples, ValidCount(c)), !.avgCount = ValidCount(c)]

\* the three channels are sampled together; channel i reads Skew * i mA more
\* than channel 0
Skew == 7

\* one 2 ms tick: every channel stores its reading (v: that of channel 0)
SampleAll(t, v) ==
  [t EXCEPT !.ch = [i \in DOMAIN t.ch |-> StoreSample(t.ch[i], v + Skew * i)],
            !.fed = Append(@, v)]

\* one 100 ms tick: every channel caches its mean
AverageAll(t) ==
  [t EXCEPT !.ch = [i \in DOMAIN t.ch |-> UpdateAverage(t.ch[i])],
            !.seen = Len(t.fed)]

\* the value field of a reply for a cached mean: sign and five digits of its
\* whole milliamps
EncodeMa(c) ==
  LET q == IF c.avgCount = 0 THEN 0
           ELSE IF c.avgSum < 0 THEN 0 - ((0 - c.avgSum) \div c.avgCount)
           ELSE c.avgSum \div c.avgCount
  IN IF q < 0 THEN <<Chr("-")>> \o Digits(0 - q, 5) ELSE <<Chr("+")>> \o Digits(q, 5)

\* ------------------------------------------------------------ state
VARIABLES
  ax,             \* the per-axis globals, pins and OCRnA, one record per axis
  rotationTimeMs, \* rotationTimeMs[] of the tachometer interrupts
  commandBuffer,  \* commandBuffer[11]
  commandIndex,   \* commandIndex
  pc,             \* position of the main context: "loop" or a statement label
  loc,            \* locals of the running processCommand
  rx,             \* bytes received and not yet read by loop()
  tx,             \* bytes handed to Serial.write so far
  menu,           \* the frames the host may send
  budget,         \* frames the host may still send
  ticksLeft,      \* timer interrupts with an effect still explored (-1: no cap)
  nestLeft,       \* those of them that may interrupt processCommand (-1: no cap)
  inflight,       \* the bytes last sent by the host, their kind, whether the
                  \* parser was idle then, and how often processCommand has
                  \* been called on exactly these bytes since
  snap,           \* the addressed axis as it was when its command was dispatched
  obs,            \* per-axis history of the commands seen
  tele,           \* the current channels, the samples fed so far and how many of
                  \* them the cached means have seen
  clk             \* msCounter, oneSecondCounter and the debug LED of the 1 ms timer

vars == <<ax, rotationTimeMs, commandBuffer, commandIndex, pc, loc, rx, tx,
          menu, budget, ticksLeft, nestLeft, inflight, snap, obs, tele, clk>>

\* half-microseconds in targetRampTimeSec (dt = stepInterval / 2 microseconds)
RampHalfUs == (2 * Micro) \div RampInv

ObsInit == [stopped |-> FALSE, lastStop |-> FALSE, stoppedBefore |-> FALSE,
            unbounded |-> FALSE,
            unbStrict |-> FALSE, planned |-> FALSE, ramp |-> FALSE, elapsed |-> 0,
            bounded |-> 0, edges |-> 0, braking |-> FALSE]

NoCap == 0 - 1

TeleInit == [ch |-> [i \in Axes |-> ChannelInit], fed |-> <<>>, seen |-> 0]

\* msCounter, oneSecondCounter and the debug LED after setup() (lines 26-28,
\* 811)
ClockInit == [msCounter |-> 0, oneSecondCounter |-> 0, debugLed |-> LOW]

\* the state once setup() has run and the 1 ms timer has counted to c: axes,
\* tachometer periods and current channels as given, the parser idle
InitCore(axes, rot, tl, c, m, b, t, n) ==
  /\ ax = axes
  /\ rotationTimeMs = rot
  /\ tele = tl
  /\ clk = c
  /\ commandBuffer = [k \in 1 .. FrameLen |-> 0]
  /\ commandIndex = 0
  /\ pc = "loop"
  /\ loc = LocInit
  /\ rx = <<>>
  /\ tx = <<>>
  /\ menu = m
  /\ budget = b
  /\ ticksLeft = t
  /\ nestLeft = n
  /\ inflight = [kind |-> "none", idle |-> TRUE, bytes |-> <<>>, hits |-> 0]
  /\ snap = AxisInit
  /\ obs = [i \in Axes |-> ObsInit]

InitAll(axes, rot, tl, m, b, t, n) ==
  InitCore(axes, rot, tl, ClockInit, m, b, t, n)

InitSys(axes, m, b, t, n) ==
  InitAll(axes, [i \in Axes |-> 0], TeleInit, m, b, t, n)

PowerOn == [i \in Axes |-> AxisInit]

\* ------------------------------------------------------------ history
\* bounded: the count N of the bounded Start that last wrote remainingSteps,
\* 0 once another command for the axis is dispatched; edges: the rising edges
\* of the step output since that write; braking: a tick of the bounded move
\* under way has taken a deceleration branch of the speed update
ObsDispatch(o, action) ==
  LET q == [o EXCEPT !.bounded = 0, !.edges = 0,
                     !.braking = IF action \in {Chr("M"), Chr("S"), Chr("A")}
                                 THEN FALSE ELSE @]
  IN IF action = Chr("M")
     THEN [q EXCEPT !.stopped = FALSE, !.lastStop = FALSE, !.unbounded = FALSE,
                    !.planned = FALSE, !.ramp = FALSE]
     ELSE IF action = Chr("S")
     THEN [q EXCEPT !.stoppedBefore = o.lastStop, !.planned = FALSE, !.ramp = FALSE]
     ELSE IF action \in {Chr("V"), Chr("A")}
     THEN [q EXCEPT !.lastStop = FALSE, !.planned = FALSE, !.ramp = FALSE]
     ELSE IF action \in {Chr("F"), Chr("R"), Chr("E"), Chr("D")}
     THEN [q EXCEPT !.lastStop = FALSE]
     ELSE q

ObsExec(o, p, l) ==
  CASE p = "M_rem" -> [o EXCEPT !.bounded = IF l.value > 0 THEN l.value ELSE 0,
                                !.edges = 0]
    [] p = "M_en" -> [o EXCEPT !.unbounded = (l.value <= 0),
                               !.unbStrict = (@ \/ l.value <= 0)]
    [] p = "M_acc" -> [o EXCEPT !.ramp = TRUE, !.elapsed = 0]
    [] p = "M_pPeak" -> [o EXCEPT !.planned = TRUE]
    [] p = "S_en" -> [o EXCEPT !.stopped = TRUE, !.unbounded = FALSE,
                               !.unbStrict = FALSE]
    [] p = "S_pDone" -> [o EXCEPT !.lastStop = TRUE]
    [] OTHER -> o

\* stepInterval as the speed update of this tick reads it for dt; 0 when the
\* tick does not reach the speed update
TickDt(a) ==
  IF ~a.motorEnabled THEN 0
  ELSE LET a1 == [a EXCEPT !.stepHigh = ~a.stepHigh]
           a2 == IF a1.stepHigh THEN RisingEdge(a1) ELSE a1
       IN IF a2.useTrapezoid /\ a2.motorEnabled THEN a2.stepInterval ELSE 0

\* the speed update of this tick takes a deceleration branch (lines 376-379:
\* the decel phase of the plan; lines 385-390: the stopping-distance test of
\* the fallback path)
TickBrakes(a) ==
  IF ~a.motorEnabled THEN FALSE
  ELSE LET a1 == [a EXCEPT !.stepHigh = ~a.stepHigh]
           a2 == IF a1.stepHigh THEN RisingEdge(a1) ELSE a1
           cur0 == IF a2.currentSpeedSps < OneSps THEN minStartSpeedSps
                   ELSE a2.currentSpeedSps
       IN /\ a2.useTrapezoid
          /\ a2.motorEnabled
          /\ a2.remainingSteps > 0
          /\ IF a2.planActive
             THEN a2.planStepsDone >= a2.planAccelSteps + a2.planCruiseSteps
             ELSE a2.remainingSteps - 1
                    <= StopSteps(cur0, Max(a2.accelerationSps2, OneSps2))

\* ------------------------------------------------------------ actions
\* the host puts the 11 bytes of one frame on the line
HostSend ==
  /\ rx = <<>>
  /\ pc = "loop"
  /\ budget > 0
  /\ \E f \in menu :
       /\ rx' = f.bytes
       /\ inflight' = [kind |-> f.kind, idle |-> (commandIndex = 0),
                       bytes |-> f.bytes, hits |-> 0]
  /\ budget' = budget - 1
  /\ UNCHANGED <<ax, rotationTimeMs, commandBuffer, commandIndex, pc, loc, tx,
                 menu, ticksLeft, nestLeft, snap, obs, tele, clk>>

\* a loop() that stores every byte it reads, idle or not
LoopStepKeepAll ==
  /\ pc = "loop"
  /\ rx # <<>>
  /\ rx' = Tail(rx)
  /\ commandBuffer' = [commandBuffer EXCEPT ![commandIndex + 1] = Head(rx)]
  /\ commandIndex' = commandIndex + 1
  /\ pc' = IF commandIndex + 1 >= FrameLen THEN "dispatch" ELSE "loop"
  /\ UNCHANGED <<ax, rotationTimeMs, loc, tx, menu, budget, ticksLeft, nestLeft,
                 inflight, snap, obs, tele, clk>>

\* loop(), lines 838-842: one byte read, up to the call of processCommand
LoopStep ==
  /\ pc = "loop"
  /\ rx # <<>>
  /\ rx' = Tail(rx)
  /\ IF commandIndex = 0 /\ Head(rx) # STX
     THEN UNCHANGED <<commandBuffer, commandIndex, pc>>
     ELSE /\ commandBuffer' = [commandBuffer EXCEPT ![commandIndex + 1] = Head(rx)]
          /\ commandIndex' = commandIndex + 1
          /\ pc' = IF commandIndex + 1 >= FrameLen THEN "dispatch" ELSE "loop"
  /\ UNCHANGED <<ax, rotationTimeMs, loc, tx, menu, budget, ticksLeft, nestLeft,
                 inflight, snap, obs, tele, clk>>

\* processCommand, one statement at a time, and line 844 on its return
CmdStep ==
  /\ pc # "loop"
  /\ IF pc = "dispatch"
     THEN LET d == Decode(commandBuffer)
          IN /\ IF d.ok
                THEN /\ pc' = Entry(d.action, d.value, ax[d.idx])
                     /\ loc' = [LocInit EXCEPT !.idx = d.idx, !.action = d.action,
                                               !.value = d.value]
                     /\ snap' = ax[d.idx]
                     /\ obs' = [obs EXCEPT ![d.idx] = ObsDispatch(@, d.action)]
                ELSE /\ pc' = "ret"
                     /\ UNCHANGED <<loc, snap, obs>>
             /\ inflight' = IF commandBuffer = inflight.bytes
                            THEN [inflight EXCEPT !.hits = @ + 1] ELSE inflight
             /\ UNCHANGED <<ax, tx, commandIndex>>
     ELSE IF pc = "ret"
     THEN /\ commandIndex' = 0
          /\ pc' = "loop"
          /\ loc' = LocInit
          /\ snap' = AxisInit
          /\ UNCHANGED <<ax, tx, obs, inflight>>
     ELSE \E up \in SqrtChoices :
            LET r == Exec(pc, ax[loc.idx], loc, rotationTimeMs[loc.idx], up)
            IN /\ ax' = [ax EXCEPT ![loc.idx] = r.a]
               /\ pc' = r.pc
               /\ loc' = r.loc
               /\ tx' = tx \o r.out
               /\ obs' = [obs EXCEPT ![loc.idx] = ObsExec(@, pc, loc)]
               /\ UNCHANGED <<commandIndex, snap, inflight>>
  /\ UNCHANGED <<rotationTimeMs, commandBuffer, rx, menu, budget, ticksLeft,
                 nestLeft, tele, clk>>

\* ISR(TIMER3/4/5_COMPA_vect): handleStep(i) run to completion
StepISR(i) ==
  LET h == handleStep(ax[i])
      counted == h # ax[i]
  IN /\ ticksLeft # 0
     /\ pc = "loop" \/ nestLeft # 0
     /\ ax' = [ax EXCEPT ![i] = h]
     /\ obs' = [obs EXCEPT ![i].elapsed =
                   IF obs[i].ramp THEN Min(@ + TickDt(ax[i]), RampHalfUs) ELSE @,
                            ![i].edges =
                   IF obs[i].bounded > 0 /\ ax[i].motorEnabled /\ ~ax[i].stepHigh
                   THEN @ + 1 ELSE @,
                            ![i].braking = h.motorEnabled /\ (@ \/ TickBrakes(ax[i]))]
     /\ ticksLeft' = IF ticksLeft > 0 /\ counted THEN ticksLeft - 1 ELSE ticksLeft
     /\ nestLeft' = IF nestLeft > 0 /\ pc # "loop" /\ counted
                    THEN nestLeft - 1 ELSE nestLeft
     /\ UNCHANGED <<rotationTimeMs, commandBuffer, commandIndex, pc, loc, rx, tx,
                    menu, budget, inflight, snap, tele, clk>>

Next == HostSend \/ LoopStep \/ CmdStep \/ (\E i \in Axes : StepISR(i))

\* the 1 ms ticks explored run from MsStart (4.998 s after setup) for MsTicks
\* ticks: over the 5 s mark, where the RPM line is printed and the leak
\* sensor is polled
MsStart == 4998
MsTicks == 3

\* ISR(TIMER1_COMPA_vect), run to completion; the leak sensor pin reads
\* either level
MsISR ==
  /\ clk.msCounter < MsStart + MsTicks
  /\ \E leak \in {LOW, HIGH} :
       LET r == Timer1(ax, clk, leak, rotationTimeMs[0])
       IN /\ ax' = r.ax
          /\ clk' = r.clk
          /\ tx' = tx \o r.out
  /\ UNCHANGED <<rotationTimeMs, commandBuffer, commandIndex, pc, loc, rx, menu,
                 budget, ticksLeft, nestLeft, inflight, snap, obs, tele>>

\* the main context, the step timers and the 1 ms timer
ClockNext == Next \/ MsISR

\* the reading of channel 0 at the k-th 2 ms tick: a fixed ramp, with a
\* second choice at the ticks that fill and wrap the buffer
BaseSample(k) == (k * 37) % 200
SampleMenu(k) ==
  IF k \in {1, 2, BufferSize, BufferSize + 1}
  THEN {BaseSample(k), 0 - 45, 123} ELSE {BaseSample(k)}

MaxSamples == 52

\* the 2 ms sampling tick
SampleTick ==
  /\ Len(tele.fed) < MaxSamples
  /\ \E v \in SampleMenu(Len(tele.fed) + 1) : tele' = SampleAll(tele, v)
  /\ UNCHANGED <<ax, rotationTimeMs, commandBuffer, commandIndex, pc, loc, rx, tx,
                 menu, budget, ticksLeft, nestLeft, inflight, snap, obs, clk>>

\* the 100 ms averaging tick
AverageTick ==
  /\ tele' = AverageAll(tele)
  /\ UNCHANGED <<ax, rotationTimeMs, commandBuffer, commandIndex, pc, loc, rx, tx,
                 menu, budget, ticksLeft, nestLeft, inflight, snap, obs, clk>>

TeleNext == SampleTick \/ AverageTick

\* ------------------------------------------------------------ specifications
MaxCmds == 3
MaxSteps == 2
MaxTicks == 4

MainMenu ==
  {Valid(1, "A", 1), Valid(1, "M", 0), Valid(1, "S", 0), Valid(1, "V", 150)}
    \cup {Valid(1, "M", n) : n \in 1 .. MaxSteps}

Init == InitSys(PowerOn, MainMenu, MaxCmds, MaxTicks, NoCap)
Spec == Init /\ [][Next]_vars

\* ------------------------------------------------------------ whole commands
RECURSIVE RunFrom(_, _, _)
\* processCommand from statement p to its return, with no interrupt in between
RunFrom(p, a, l) ==
  IF p = "ret" THEN a
  ELSE LET r == Exec(p, a, l, 0, 0) IN RunFrom(r.pc, r.a, r.loc)

\* the axis after a whole command addressed to it
Apply(a, action, value) ==
  RunFrom(Entry(Chr(action), value, a), a,
          [LocInit EXCEPT !.action = Chr(action), !.value = value])

\* ------------------------------------------------------------ frame handling
Bits == 0 .. 7

\* the well-formed frames the corrupted ones are made from
BaseFrames ==
  {HostFrame(1, Chr("S"), 0), HostFrame(1, Chr("V"), 150), HostFrame(2, Chr("X"), 0)}

\* one bit of one of the bytes 1..8 inverted
BitFlips == {[bytes |-> FlipBit(f, k, b), kind |-> "bitflip"] :
               f \in BaseFrames, k \in 2 .. 9, b \in Bits}

\* byte 0 is not STX; in the second form byte 9 is the value 0x02 as well
BadStx == {[bytes |-> FlipBit(f, 1, b), kind |-> "badstx"] :
             f \in BaseFrames, b \in Bits}
            \cup {[bytes |-> [f EXCEPT ![1] = 0, ![10] = STX], kind |-> "badstx"] :
                    f \in BaseFrames}

\* byte 10 is not ETX
BadEtx == {[bytes |-> FlipBit(f, FrameLen, b), kind |-> "badetx"] :
             f \in BaseFrames, b \in Bits}

\* byte 9 is not the XOR of bytes 1..8
BadSum == {[bytes |-> FlipBit(f, 10, b), kind |-> "badsum"] :
             f \in BaseFrames, b \in Bits}
            \cup {[bytes |-> [f EXCEPT ![10] = STX], kind |-> "badsum"] :
                    f \in BaseFrames}

Malformed == {"badstx", "badetx", "badsum"}

FrameMenu ==
  {[bytes |-> f, kind |-> "valid"] : f \in BaseFrames}
    \cup BitFlips \cup BadStx \cup BadEtx \cup BadSum

FrameCmds == 1
FrameTicks == 2

\* axis 1 runs an unbounded move when the frames arrive
FrameInit ==
  InitSys([PowerOn EXCEPT ![0] = Apply(AxisInit, "M", 0)], FrameMenu,
          FrameCmds, FrameTicks, NoCap)
FrameSpec == FrameInit /\ [][Next]_vars

\* a step of the main context: loop() or processCommand
MainStep == LoopStep \/ CmdStep

\* the frame sent last has been read to its last byte and handled
Consumed == rx = <<>> /\ pc = "loop"

\* C1: a valid frame with one bit of one of its bytes 1..8 inverted is
\* rejected by the checksum test of processCommand, which returns at once: no
\* step of the main context that handles it changes an axis field, a pin or
\* a timer register, and none sends a byte.
C1_BitFlipDropped ==
  [][(inflight.kind = "bitflip" /\ inflight.idle /\ MainStep)
       => /\ ax' = ax
          /\ tx' = tx
          /\ (pc = "dispatch" => (~ChecksumOk(commandBuffer) /\ pc' = "ret"))]_vars

\* processCommand has returned on a frame with an inverted bit while axis 1
\* was running
C1_Witness ==
  /\ inflight.kind = "bitflip"
  /\ pc = "ret"
  /\ commandIndex = FrameLen
  /\ ax[0].motorEnabled

\* C2: a complete frame with a wrong byte 0, a wrong byte 10 or a wrong
\* checksum, sent to the idle parser, changes no axis field, pin or timer
\* register and sends no byte, and once its 11 bytes are read the parser is
\* idle again (commandIndex = 0).
C2_MalformedNoChange ==
  [][(inflight.kind \in Malformed /\ inflight.idle /\ MainStep)
       => /\ ax' = ax
          /\ tx' = tx
          /\ (Consumed' => commandIndex' = 0)]_vars

\* ------------------------------------------------------------ Stop and Start
\* the fields of an axis that Stop is said to leave alone, the speed aside
StopKeeps(a, b) ==
  /\ a.motorEnabled = b.motorEnabled
  /\ a.remainingSteps = b.remainingSteps
  /\ a.targetSpeedSps = b.targetSpeedSps
  /\ a.accelerationSps2 = b.accelerationSps2
  /\ a.stepInterval = b.stepInterval
  /\ a.pendingIntervalUpdate = b.pendingIntervalUpdate
  /\ a.pendingIntervalUs = b.pendingIntervalUs
  /\ a.useTrapezoid = b.useTrapezoid

\* processCommand is about to return from a Stop for an axis that was
\* already stopped when the command was dispatched
StopOnStopped == pc = "ret" /\ loc.action = Chr("S") /\ ~snap.motorEnabled

\* C3 as stated: a Stop for an axis that is already stopped leaves enabled,
\* remainingSteps, currentSpeedSps, targetSpeedSps, acceleration,
\* stepInterval, the pending interval and the trapezoid flag unchanged, and
\* the plan is inactive.
C3_StopLeavesAllFields ==
  StopOnStopped =>
    /\ StopKeeps(ax[loc.idx], snap)
    /\ ax[loc.idx].currentSpeedSps = snap.currentSpeedSps
    /\ ~ax[loc.idx].planActive

\* C3 amended: a Stop for an axis that is already stopped leaves enabled,
\* remainingSteps, targetSpeedSps, acceleration, stepInterval, the pending
\* interval and the trapezoid flag unchanged, sets currentSpeedSps to 0 and
\* leaves the plan inactive with planStepsDone = 0; a second Stop changes
\* nothing at all.
C3_StopIdempotent ==
  StopOnStopped =>
    /\ StopKeeps(ax[loc.idx], snap)
    /\ ax[loc.idx].currentSpeedSps = 0
    /\ ~ax[loc.idx].planActive
    /\ ax[loc.idx].planStepsDone = 0
    /\ (obs[loc.idx].stoppedBefore => ax[loc.idx] = snap)

\* a Stop returns for an axis that ran out of steps under trapezoid mode and
\* still stored its last speed
C3_Witness == StopOnStopped /\ snap.currentSpeedSps > 0 /\ snap.useTrapezoid

\* C4: from the first statement of the Stop handler until a Start for the
\* axis is dispatched the axis is disabled, and every timer interrupt of the
\* axis leaves all its fields, pins and its timer register as they are,
\* wherever the interrupts fall between the statements of the main context.
C4_StopImmediate ==
  [][\A i \in Axes :
       /\ obs'[i].stopped => ~ax'[i].motorEnabled
       /\ (obs[i].stopped /\ StepISR(i)) => ax'[i] = ax[i]]_vars

\* the Stop handler has disabled a running axis and has not yet cleared its
\* step count: an interrupt here finds remainingSteps > 0
C4_Witness ==
  /\ pc = "S_rem"
  /\ obs[loc.idx].stopped
  /\ snap.motorEnabled
  /\ ax[loc.idx].remainingSteps > 0
  /\ ax[loc.idx].stepHigh

\* C5: after a Start with N > 0 under trapezoid mode has returned, a timer
\* interrupt leaves the axis with remainingSteps = 0 and disabled exactly
\* when it makes planStepsDone equal to planTotalSteps.
C5_ExhaustedExactlyAtTotal ==
  [][\A i \in Axes :
       (obs[i].planned /\ ax[i].motorEnabled /\ StepISR(i))
         => ((ax'[i].remainingSteps = 0 /\ ~ax'[i].motorEnabled)
               <=> ax'[i].planStepsDone = ax'[i].planTotalSteps)]_vars

\* C6 as stated: an axis started with step count 0 is enabled for as long as
\* no Stop for it is handled, whatever other commands arrive.
C6_RunsUntilStop == \A i \in Axes : obs[i].unbStrict => ax[i].motorEnabled

\* C6 amended: an axis started with step count 0 is enabled, with
\* remainingSteps = 0, for as long as neither a Stop nor another Start for it
\* is dispatched; no timer interrupt disables it.
C6_RunsUntilStopOrStart ==
  \A i \in Axes : obs[i].unbounded =>
    (ax[i].motorEnabled /\ ax[i].remainingSteps = 0)

\* the unbounded axis is still enabled when the host has sent all its frames
\* and all counted interrupts have run
C6_Witness ==
  /\ obs[0].unbounded
  /\ ax[0].motorEnabled
  /\ ticksLeft = 0
  /\ budget = 0
  /\ Consumed

\* ------------------------------------------------------------ planner
\* target speeds (rpm) set before the Start, step counts of the Start
PlanRpms == {60, 150, 300}
BigMove == 10 * 1000
PlanCounts == {1, 2, 3, 100, 299, 600, BigMove}
PlanTicks == 3
PlanCmds == 1

\* axis 2 after "A 1" and "V rpm"; then one bounded Start arrives
PlanInit ==
  \E rpm \in PlanRpms :
    InitSys([PowerOn EXCEPT ![1] = Apply(Apply(AxisInit, "A", 1), "V", rpm)],
            {Valid(2, "M", n) : n \in PlanCounts}, PlanCmds, PlanTicks, NoCap)
PlanSpec == PlanInit /\ [][Next]_vars

\* processCommand is about to return from a Start that wrote a plan
PlanWritten == pc = "ret" /\ loc.action = Chr("M") /\ obs[loc.idx].planned

BigMovePlanned ==
  /\ PlanWritten
  /\ loc.idx = 1
  /\ loc.value = BigMove
  /\ loc.shape.total = BigMove
  /\ loc.ramps.v0 = minStartSpeedSps
  /\ loc.ramps.vtar = rpmToSps(300)

\* C9 as stated: that Start yields accelSteps = 469, decelSteps = 469 and
\* cruiseSteps = 9062 with peak 2000 steps/s.
C9_PlanOfScenario ==
  BigMovePlanned =>
    /\ ax[1].planAccelSteps = 469
    /\ ax[1].planDecelSteps = 469
    /\ ax[1].planCruiseSteps = 9062
    /\ ax[1].planPeakSpeedSps = rpmToSps(300)

\* the planner's figures for acceleration acc, all else as in the scenario
ScenarioShape(acc) ==
  PlanShape(PlanRamps([AxisInit EXCEPT !.currentSpeedSps = minStartSpeedSps,
                                       !.targetSpeedSps = rpmToSps(300),
                                       !.accelerationSps2 = acc]), BigMove, 0)

\* C9 amended: the Start replaces the acceleration by (2000 - 500) / 0.2 =
\* 7500 steps/s^2 before it plans, so the plan is accelSteps = 250,
\* decelSteps = 250, cruiseSteps = 9500 with peak 2000 steps/s; 469, 469 and
\* 9062 are what the planner's arithmetic gives for 4000 steps/s^2, a value
\* the Start never plans with when the target is above the start speed.
C9_PlanOfStart ==
  /\ BigMovePlanned =>
       /\ loc.ramps.acc = 7500 * AccScale
       /\ ax[1].planAccelSteps = 250
       /\ ax[1].planDecelSteps = 250
       /\ ax[1].planCruiseSteps = 9500
       /\ ax[1].planPeakSpeedSps = rpmToSps(300)
  /\ ScenarioShape(InitAccel).accelStepsUL = 469
  /\ ScenarioShape(InitAccel).decelStepsUL = 469
  /\ ScenarioShape(InitAccel).cruiseStepsUL = 9062

C9_Witness == BigMovePlanned /\ ax[1].planCruiseSteps > 0

\* ------------------------------------------------------------ ramp
RampRpm == 3 * 50
MaxNest == 1
RampCmds == 2

\* axis 1 after "A 1" and "V 150" (target 1000 steps/s); the host may send an
\* unbounded Start and a Stop
RampInit ==
  InitSys([PowerOn EXCEPT ![0] = Apply(Apply(AxisInit, "A", 1), "V", RampRpm)],
          {Valid(1, "M", 0), Valid(1, "S", 0)}, RampCmds, NoCap, MaxNest)
RampSpec == RampInit /\ [][Next]_vars

\* the unbounded Start of axis 1 for target 1000 steps/s is being handled or
\* was the last command dispatched for the axis
RampCase(i) ==
  /\ i = 0
  /\ ax[i].useTrapezoid
  /\ ax[i].targetSpeedSps = 1000 * SpsScale
  /\ obs[i].unbounded

\* the ramp of the Start is under way and no command has arrived since
Ramping(i) == RampCase(i) /\ obs[i].ramp /\ ax[i].motorEnabled

\* the dt of the ticks since the acceleration was set adds up to 0.2 s
RampTimeOver(i) == obs[i].elapsed >= RampHalfUs

\* rounding allowed for the ramp: 0.01 step/s
RampTol == SpsScale \div 100

\* C10: the unbounded Start of axis 1 under trapezoid mode with target 1000
\* steps/s sets currentSpeedSps to 500 steps/s and the acceleration to
\* (1000 - 500) / 0.2 = 2500 steps/s^2; while no command arrives the speed
\* never exceeds the target, and once the dt of the ticks adds up to 0.2 s it
\* is 1000 steps/s to within 0.01 step/s and stays there.
C10_RampReachesTarget ==
  [][/\ (CmdStep /\ pc = "M_cur" /\ loc.idx = 0 /\ loc.value = 0
           /\ ax[0].targetSpeedSps = 1000 * SpsScale)
          => ax'[0].currentSpeedSps = 500 * SpsScale
     /\ (CmdStep /\ pc = "M_acc" /\ loc.idx = 0 /\ loc.value = 0
           /\ ax[0].targetSpeedSps = 1000 * SpsScale
           /\ ax[0].currentSpeedSps = 500 * SpsScale)
          => ax'[0].accelerationSps2 = 2500 * AccScale
     /\ \A i \in Axes : Ramping(i)' =>
          /\ ax'[i].currentSpeedSps <= ax'[i].targetSpeedSps
          /\ RampTimeOver(i)' =>
               ax'[i].currentSpeedSps >= (1000 * SpsScale) - RampTol]_vars

\* the ramp has just ended: the tick that completes 0.2 s has run
C10_Witness ==
  /\ Ramping(0)
  /\ RampTimeOver(0)
  /\ ax[0].currentSpeedSps = 1000 * SpsScale
  /\ ax[0].stepInterval = 1000

\* ------------------------------------------------------------ Set-speed
\* axis 1 runs an unbounded move at constant speed, axis 2 one under
\* trapezoid mode; Set-speed frames arrive for both
SlowRpm == 1
FastRpm == 999999
SpeedMenu ==
  {Valid(1, "V", 0), Negative(1, "V", 5), Valid(1, "V", 150), Valid(1, "V", SlowRpm),
   Valid(1, "V", FastRpm), Valid(2, "V", 0), Valid(2, "V", 300), Valid(2, "S", 0)}
SpeedCmds == 2
SpeedTicks == 3

SpeedInit ==
  InitSys([PowerOn EXCEPT ![0] = Apply(AxisInit, "M", 0),
                          ![1] = Apply(Apply(AxisInit, "A", 1), "M", 0)],
          SpeedMenu, SpeedCmds, SpeedTicks, NoCap)
SpeedSpec == SpeedInit /\ [][Next]_vars

\* the statements of the Set-speed branch taken when trapezoid mode is off
LabelsVDirect == {"V_int", "V_pUs", "V_pUp", "V_tar2"}

\* C11: with trapezoid mode off, no statement of the Set-speed handler
\* changes the compare register; the handler queues the new interval
\* (pendingIntervalUs and the update flag), and every change of the
\* register of such an axis is made by a timer interrupt that raises the step
\* output and finds the update flag set.
C11_SpeedQueuedOnly ==
  [][/\ \A i \in Axes :
          (~ax[i].useTrapezoid /\ ax'[i].ocr # ax[i].ocr)
            => /\ pc' = pc
               /\ ~ax[i].stepHigh
               /\ ax'[i].stepHigh
               /\ ax'[i].stepPin = HIGH
               /\ ax[i].pendingIntervalUpdate
     /\ (pc \in LabelsVDirect /\ pc' # pc) => ax'[loc.idx].ocr = ax[loc.idx].ocr
     /\ (pc = "V_pUp" /\ pc' # pc)
          => /\ ax'[loc.idx].pendingIntervalUpdate
             /\ ax'[loc.idx].pendingIntervalUs = rpmToIntervalUs(loc.value)]_vars

\* the interval queued by a Set-speed of 150 rpm has reached the compare
\* register of axis 1 on a rising edge
C11_Witness ==
  /\ ~ax[0].useTrapezoid
  /\ ax[0].motorEnabled
  /\ ax[0].stepHigh
  /\ ~ax[0].pendingIntervalUpdate
  /\ ax[0].ocr = IsrOcr(rpmToIntervalUs(150))
  /\ ax[0].ocr # AxisInit.ocr

\* C12: an enabled axis has stepInterval > 0 in every reachable state.
C12_IntervalPositive ==
  \A i \in Axes : ax[i].motorEnabled => ax[i].stepInterval > 0

\* the main context handles a Set-speed whose value is zero or negative
ZeroSpeed ==
  IF pc = "dispatch"
  THEN /\ Decode(commandBuffer).ok
       /\ Decode(commandBuffer).action = Chr("V")
       /\ Decode(commandBuffer).value <= 0
  ELSE pc # "loop" /\ loc.action = Chr("V") /\ loc.value <= 0

\* C19: a Set-speed with value 0 or a negative value returns without a
\* write: no statement of processCommand that handles it changes a field, a
\* pin or the timer register of any axis, in trapezoid mode and without it.
C19_ZeroSpeedNoOp ==
  [][(ZeroSpeed /\ pc' # pc) => (ax' = ax /\ tx' = tx /\ pc' \in {"ret", "loop"})]_vars

\* a Set-speed with value 0 is returning for axis 2, which runs under
\* trapezoid mode toward its target
C19_Witness ==
  /\ pc = "ret"
  /\ loc.action = Chr("V")
  /\ loc.value <= 0
  /\ loc.idx = 1
  /\ ax[1].useTrapezoid
  /\ ax[1].motorEnabled
  /\ ax[1].targetSpeedSps = snap.targetSpeedSps
  /\ ax[1].targetSpeedSps > 0

\* C20: a step of processCommand changes no field, pin or timer register of
\* an axis other than the one its frame addresses, and a timer interrupt
\* changes none of an axis other than its own.
C20_AxesIndependent ==
  [][\A j \in Axes :
       ax'[j] # ax[j]
         => IF pc' # pc
            THEN pc # "dispatch" /\ j = commandBuffer[2] - 49
            ELSE StepISR(j)]_vars

\* axis 2 has been stopped by its Stop command while axis 1, given a new
\* speed before, is still running
C20_Witness ==
  /\ pc = "ret"
  /\ loc.action = Chr("S")
  /\ loc.idx = 1
  /\ ~ax[1].motorEnabled
  /\ ax[0].motorEnabled
  /\ ax[0].stepInterval # AxisInit.stepInterval
  /\ ax[2] = AxisInit

\* ------------------------------------------------------------ shared fields
\* the statements of processCommand that follow a write of stepInterval, of
\* the pending interval or of a plan field and precede another write of the
\* same group (lines 615-620, 657-663, 703-705, 719-724)
MidGroup == {"M_tim", "M_pTot", "M_pDone", "M_pAcc", "M_pCru", "M_pDec", "M_pPeak",
             "V_pUs", "V_pUp", "A_pUs", "A_pUp", "A_pDone"}

\* C13: the command handler writes the interval group and the plan group of
\* an axis with the timer interrupt of that axis excluded: between two
\* writes of a group no interrupt changes the axis, so none runs its
\* scheduler on a half-written group.
C13_WritesExcluded ==
  [][(pc \in MidGroup /\ pc' = pc) => ax'[loc.idx] = ax[loc.idx]]_vars

\* C14: a timer interrupt never lowers planStepsDone of an active plan and
\* leaves planStepsDone <= planTotalSteps while the plan is active, the plan
\* inactive when planStepsDone = planTotalSteps; and the plan is inactive
\* when a Stop, a Start without trapezoid mode or a trapezoid-off toggle
\* returns.
C14_PlanProgress ==
  [][/\ \A i \in Axes :
          StepISR(i) =>
            /\ ax[i].planActive => ax'[i].planStepsDone >= ax[i].planStepsDone
            /\ ax'[i].planActive => ax'[i].planStepsDone <= ax'[i].planTotalSteps
            /\ ax'[i].planStepsDone = ax'[i].planTotalSteps => ~ax'[i].planActive
     /\ (/\ pc' = "ret"
         /\ pc # "dispatch"
         /\ \/ loc.action = Chr("S")
            \/ loc.action = Chr("M") /\ ~ax'[loc.idx].useTrapezoid
            \/ loc.action = Chr("A") /\ loc.value = 0)
          => ~ax'[loc.idx].planActive]_vars

\* ------------------------------------------------------------ current average
\* the channels from power-on, fed up to MaxSamples readings
TeleSpec == InitSys(PowerOn, {}, 0, 0, 0) /\ [][TeleNext]_vars

RECURSIVE SumFed(_, _, _)
\* fed[lo] + ... + fed[hi]
SumFed(fed, lo, hi) == IF lo > hi THEN 0 ELSE fed[hi] + SumFed(fed, lo, hi - 1)

\* the cached mean of channel i is that of the readings lo..hi of the feed
MeanOf(i, lo, hi) ==
  /\ tele.ch[i].avgCount = (hi - lo) + 1
  /\ tele.ch[i].avgSum = SumFed(tele.fed, lo, hi) + ((hi - lo) + 1) * Skew * i

\* C17: a mean cached when exactly 50 readings have been fed is the exact
\* mean of those 50 (kept as their sum over 50); a mean cached after the 51st
\* is the mean of readings 2..51, the 51st having replaced the first.
C17_MeanOfLastFifty ==
  \A i \in Axes :
    /\ tele.seen = BufferSize => MeanOf(i, 1, BufferSize)
    /\ tele.seen = BufferSize + 1 => MeanOf(i, 2, BufferSize + 1)

\* the mean was cached after a 51st reading that differs from the first one
C17_Witness ==
  /\ tele.seen = BufferSize + 1
  /\ Len(tele.fed) = BufferSize + 1
  /\ tele.fed[1] # tele.fed[BufferSize + 1]
  /\ tele.ch[0].bufferFull
  /\ tele.ch[0].writeIndex = 1

\* ------------------------------------------------------------ queries
\* rotation periods (ms) the tachometer interrupt of axis 2 may have stored
RotTimes == {0, 1, 2, 70000}

RECURSIVE FeedBase(_)
\* the channels after n sampling ticks of the fixed ramp
FeedBase(n) == IF n = 0 THEN TeleInit ELSE SampleAll(FeedBase(n - 1), BaseSample(n))

\* sampling ticks before the queries arrive
FedCounts == {0, 3}

\* well-formed frames processCommand has no branch for: selectors '0', '4'
\* and ':' with a known action, and the action 'Z'
Ignored ==
  {[bytes |-> HostFrame(p, Chr("S"), 0), kind |-> "ignored"] : p \in {0, 4, 10}}
    \cup {[bytes |-> HostFrame(4, Chr("C"), 0), kind |-> "ignored"],
          [bytes |-> HostFrame(1, Chr("Z"), 0), kind |-> "ignored"],
          [bytes |-> HostFrame(2, Chr("Z"), 5), kind |-> "ignored"]}

QueryMenu ==
  {Valid(1, "C", 0), Valid(2, "C", 0), Valid(1, "X", 0), Valid(2, "X", 0)} \cup Ignored
QueryCmds == 2
QueryTicks == 2

\* axis 1 runs an unbounded move; the tachometer and the current channels
\* have been running for a while
QueryInit ==
  \E r \in RotTimes, n \in FedCounts :
    InitAll([PowerOn EXCEPT ![0] = Apply(AxisInit, "M", 0)],
            [i \in Axes |-> IF i = 1 THEN r ELSE 0], AverageAll(FeedBase(n)),
            QueryMenu, QueryCmds, QueryTicks, NoCap)
QuerySpec == QueryInit /\ [][Next]_vars

\* the k-th reply sent (k = 0, 1, ...) when every reply has RespLen bytes
Reply(k) == SubSeq(tx, (RespLen * k) + 1, RespLen * (k + 1))
Replies == 0 .. ((Len(tx) \div RespLen) - 1)

\* a C or X query is about to return
Answered == pc = "ret" /\ loc.action \in {Chr("C"), Chr("X")}

\* the reply just sent
LastReply == Reply((Len(tx) \div RespLen) - 1)

\* the framing of a reply: 10 bytes, STX, an axis digit, XOR of bytes 1..7, ETX
Framed(r) ==
  /\ Len(r) = RespLen
  /\ r[1] = STX
  /\ r[2] \in 49 .. (48 + NumAxes)
  /\ r[9] = XorRange(r, 2, 8)
  /\ r[RespLen] = ETX

C16_ReplyIsAverage ==
  (Answered /\ loc.action = Chr("C"))
    => SubSeq(LastReply, 3, 8) = EncodeMa(tele.ch[loc.idx])

\* C18: a well-formed frame whose axis selector is not '1'..'3', or whose
\* action code has no branch, is ignored: no step of the main context that
\* handles it changes an axis field, a pin or a timer register, none sends a
\* byte, and the parser is idle again once the frame is read.
C18_UnknownIgnored ==
  [][(inflight.kind = "ignored" /\ MainStep)
       => /\ ax' = ax
          /\ tx' = tx
          /\ (Consumed' => commandIndex' = 0)]_vars

\* a frame with action 'Z' for the running axis 1 has been handled
C18_Witness ==
  /\ inflight.kind = "ignored"
  /\ pc = "ret"
  /\ loc.idx = 0
  /\ loc.action = Chr("Z")
  /\ ax[0].motorEnabled

\* ------------------------------------------------------------ leak sensor
LeakCmds == 1
LeakTicks == 3

\* axis 1 runs a planned move of 3 steps, axis 2 an unbounded move at constant
\* speed; the 1 ms timer stands at MsStart; a Stop or a Set-speed may arrive
LeakInit ==
  InitCore([PowerOn EXCEPT
              ![0] = Apply(Apply(Apply(AxisInit, "A", 1), "V", 150), "M", 3),
              ![1] = Apply(AxisInit, "M", 0)],
           [i \in Axes |-> IF i = 0 THEN 100 ELSE 0], TeleInit,
           [msCounter |-> MsStart, oneSecondCounter |-> MsStart \div 1000,
            debugLed |-> LOW],
           {Valid(1, "S", 0), Valid(2, "V", 300)}, LeakCmds, LeakTicks, NoCap)
LeakSpec == LeakInit /\ [][ClockNext]_vars

\* C21: the 1 ms timer interrupt, which polls the leak sensor every 20 ms,
\* changes no field, pin or timer register of any axis, whatever level the
\* sensor reads: enabled, remainingSteps, the speeds, the interval and the
\* plan are as before it.
C21_LeakPollObserves ==
  [][clk' # clk => \A i \in Axes : ax'[i] = ax[i]]_vars

\* the poll at 5.000 s has read a leak (LED on) and the planned move of axis
\* 1 and the move of axis 2 are still under way after all step interrupts
C21_Witness ==
  /\ clk.msCounter > MsStart + 2
  /\ clk.debugLed = HIGH
  /\ ticksLeft = 0
  /\ ax[0].motorEnabled
  /\ ax[0].planActive
  /\ ax[0].remainingSteps > 0
  /\ ax[1].motorEnabled

\* ------------------------------------------------------------ bounded move
\* C22: once a Start of N >= 1 steps has written remainingSteps, and until
\* another command for the axis is dispatched, a timer interrupt of the
\* enabled axis lowers remainingSteps by exactly 1 when it raises the step
\* output and leaves it alone when it lowers the output; the rising edges so
\* far and remainingSteps add up to N; and with remainingSteps = 0 the axis
\* is disabled, so that the N-th rising edge is the last.
C22_BoundedCountsDown ==
  [][\A i \in Axes :
       /\ (obs[i].bounded > 0 /\ pc' = pc /\ ax'[i] # ax[i])
            => /\ ax'[i].stepPin # ax[i].stepPin
               /\ ax'[i].remainingSteps =
                    ax[i].remainingSteps - (IF ax'[i].stepPin = HIGH THEN 1 ELSE 0)
       /\ obs'[i].bounded > 0
            => /\ obs'[i].edges + ax'[i].remainingSteps = obs'[i].bounded
               /\ ax'[i].remainingSteps = 0 => ~ax'[i].motorEnabled]_vars

\* ------------------------------------------------------------ command effects
\* states of axis 1 when the frames arrive: idle under trapezoid mode with
\* target 400 or 500 steps/s, running a planned move of 600 steps toward
\* 1000 steps/s, running an unbounded move at constant speed, idle at
\* constant speed after a Set-speed of 60 rpm
HandlerAxes ==
  { Apply(Apply(AxisInit, "A", 1), "V", 60),
    Apply(Apply(AxisInit, "A", 1), "V", 75),
    Apply(Apply(Apply(AxisInit, "A", 1), "V", 150), "M", 600),
    Apply(AxisInit, "M", 0),
    Apply(AxisInit, "V", 60) }

HandlerMenu ==
  {Valid(1, "M", 0), Valid(1, "M", 2), Valid(1, "S", 0), Valid(1, "F", 0),
   Valid(1, "R", 0), Valid(1, "E", 0), Valid(1, "D", 0), Valid(1, "V", 60),
   Valid(1, "V", 300), Valid(1, "A", 0), Valid(1, "A", 1)}
HandlerCmds == 1
HandlerTicks == 2

HandlerInit ==
  \E a \in HandlerAxes :
    InitSys([PowerOn EXCEPT ![0] = a], HandlerMenu, HandlerCmds, HandlerTicks, NoCap)
HandlerSpec == HandlerInit /\ [][Next]_vars

\* processCommand is entered with a valid frame of the given action
Dispatching(action) ==
  /\ pc = "dispatch"
  /\ Decode(commandBuffer).ok
  /\ Decode(commandBuffer).action = Chr(action)

\* the addressed axis, the value of the frame, and the axis as the handler
\* leaves it when no timer interrupt of the axis is served before it returns
Addressed == ax[Decode(commandBuffer).idx]
FrameValue == Decode(commandBuffer).value
Outcome(action) == Apply(Addressed, action, FrameValue)

BrakeSteps == 127
BrakeTicks == 6
BrakeCmds == 1

BrakeInit ==
  InitSys([PowerOn EXCEPT
             ![0] = Apply(Apply(Apply(Apply(AxisInit, "V", 150), "A", 0),
                                "M", BrakeSteps), "A", 1),
             ![1] = Apply(Apply(Apply(AxisInit, "A", 1), "V", 150), "M", 3)],
          {Valid(1, "V", 300), Valid(2, "V", 60), Valid(2, "V", 300)},
          BrakeCmds, BrakeTicks, NoCap)
BrakeSpec == BrakeInit /\ [][Next]_vars

\* C24: once a tick of a bounded move has taken a deceleration branch (the
\* decel phase of the plan, or the fallback path with its stopping-distance
\* test true), no later tick of that move raises currentSpeedSps.
C24_BrakingMonotone ==
  [][\A i \in Axes :
       (obs[i].braking /\ StepISR(i))
         => ax'[i].currentSpeedSps <= ax[i].currentSpeedSps]_vars

\* ------------------------------------------------------------ speed tracking
\* axis 1 runs an unbounded move under trapezoid mode toward 1000 steps/s;
\* a Set-speed to 400 or to 2000 steps/s may arrive
TrackTicks == 4
TrackCmds == 1

TrackInit ==
  InitSys([PowerOn EXCEPT
             ![0] = Apply(Apply(Apply(AxisInit, "A", 1), "V", 150), "M", 0)],
          {Valid(1, "V", 60), Valid(1, "V", 300)}, TrackCmds, TrackTicks, NoCap)
TrackSpec == TrackInit /\ [][Next]_vars

\* accel * dt of the tick that is about to run on axis a
TickInc(a) == AccelDt(Max(a.accelerationSps2, OneSps2), TickDt(a))

\* C25: a tick of an unbounded move under trapezoid mode changes
\* currentSpeedSps by at most accel * dt, toward the target and not past
\* it: upward when the target is above the speed, downward when it is below.
C25_TracksBothWays ==
  [][\A i \in Axes :
       (/\ StepISR(i)
        /\ ax[i].motorEnabled
        /\ ax[i].useTrapezoid
        /\ ax[i].remainingSteps = 0
        /\ ax[i].currentSpeedSps >= OneSps)
         => LET cur == ax[i].currentSpeedSps
                new == ax'[i].currentSpeedSps
                target == ax[i].targetSpeedSps
            IN IF cur <= target
               THEN cur <= new /\ new <= Min(cur + TickInc(ax[i]), target)
               ELSE new <= cur /\ new >= Max(cur - TickInc(ax[i]), target)]_vars

\* ------------------------------------------------------------ plan presence
\* C26: whenever processCommand is not running, an axis with an active plan
\* is enabled, under trapezoid mode and has remainingSteps > 0, wherever the
\* timer interrupts fell among the statements of the commands handled so far.
C26_PlanOnlyWhileMoving ==
  pc = "loop" =>
    \A i \in Axes :
      ax[i].planActive =>
        /\ ax[i].motorEnabled
        /\ ax[i].useTrapezoid
        /\ ax[i].remainingSteps > 0

\* ------------------------------------------------------------ Set-speed, ramped
\* C27: a Set-speed with RPM > 0 for a moving axis under trapezoid mode
\* leaves targetSpeedSps = RPM * stepsPerRev / 60 and the acceleration =
\* |targetSpeedSps - currentSpeedSps| / 0.2 (at least 1), the ramp that takes
\* the current speed to the new target in 0.2 s whether the target is above
\* or below it; stepInterval and the pending interval are as before.
C27_SpeedRetargets ==
  (/\ Dispatching("V")
   /\ FrameValue > 0
   /\ Addressed.useTrapezoid
   /\ Addressed.motorEnabled
   /\ Addressed.currentSpeedSps > OneSps) =>
    LET a == Addressed
        b == Outcome("V")
        dv == IF b.targetSpeedSps > a.currentSpeedSps
              THEN b.targetSpeedSps - a.currentSpeedSps
              ELSE a.currentSpeedSps - b.targetSpeedSps
    IN /\ b.targetSpeedSps = FrameValue * ((stepsPerRev * SpsScale) \div 60)
       /\ b.accelerationSps2 = Max(dv, OneSps2)
       /\ b.stepInterval = a.stepInterval
       /\ b.pendingIntervalUs = a.pendingIntervalUs
       /\ b.pendingIntervalUpdate = a.pendingIntervalUpdate

\* ------------------------------------------------------------ trapezoid toggle
\* C28: a trapezoid-off command that no timer interrupt of the axis
\* interrupts leaves currentSpeedSps = targetSpeedSps, the interval of
\* targetSpeedSps queued (pendingIntervalUs, update flag set) and the plan
\* inactive; a trapezoid-on command changes the trapezoid flag and nothing
\* else; and wherever the interrupts fall, no statement of either
\* reprograms the timer, and trapezoid-off returns with currentSpeedSps =
\* targetSpeedSps and the plan inactive.
C28_TrapezoidToggle ==
  [][/\ (Dispatching("A") /\ FrameValue = 0) =>
          LET a == Addressed
              b == Outcome("A")
          IN /\ ~b.useTrapezoid
             /\ b.currentSpeedSps = a.targetSpeedSps
             /\ b.targetSpeedSps = a.targetSpeedSps
             /\ b.pendingIntervalUs = spsToIntervalUs(a.targetSpeedSps)
             /\ b.pendingIntervalUpdate
             /\ b.ocr = a.ocr
             /\ ~b.planActive
     /\ (Dispatching("A") /\ FrameValue # 0) =>
          Outcome("A") = [Addressed EXCEPT !.useTrapezoid = TRUE]
     /\ (pc \in LabelsA /\ pc' # pc) =>
          /\ ax'[loc.idx].ocr = ax[loc.idx].ocr
          /\ loc.value # 0 =>
               ax'[loc.idx] = [ax[loc.idx] EXCEPT !.useTrapezoid = TRUE]
     /\ (pc \in LabelsA /\ pc' = "ret" /\ loc.value = 0) =>
          /\ ~ax'[loc.idx].useTrapezoid
          /\ ax'[loc.idx].currentSpeedSps = ax'[loc.idx].targetSpeedSps
          /\ ~ax'[loc.idx].planActive]_vars

\* trapezoid mode has been switched off during a planned move whose speed
\* was below its target: the speed is now the target, its interval is
\* queued, the timer register is as it was and the plan is gone
C28_Witness ==
  /\ pc = "ret"
  /\ loc.action = Chr("A")
  /\ loc.value = 0
  /\ snap.planActive
  /\ snap.currentSpeedSps < snap.targetSpeedSps
  /\ ~ax[loc.idx].planActive
  /\ ax[loc.idx].currentSpeedSps = ax[loc.idx].targetSpeedSps
  /\ ax[loc.idx].pendingIntervalUpdate
  /\ ax[loc.idx].pendingIntervalUs = spsToIntervalUs(ax[loc.idx].targetSpeedSps)
  /\ ax[loc.idx].ocr = snap.ocr

\* ------------------------------------------------------------ constant-speed Start
\* C29: a Start with trapezoid mode off that no timer interrupt of the axis
\* interrupts changes the enable line, remainingSteps, motorEnabled, the
\* timer register (programmed from the stepInterval it finds) and the plan
\* (inactive, planStepsDone = 0) and nothing else; and wherever the
\* interrupts fall, no statement of it changes stepInterval,
\* currentSpeedSps, targetSpeedSps or accelerationSps2.
C29_StartKeepsSpeed ==
  [][/\ (Dispatching("M") /\ ~Addressed.useTrapezoid) =>
          Outcome("M") =
            [Addressed EXCEPT !.enaPin = LOW,
                              !.remainingSteps = IF FrameValue > 0 THEN FrameValue ELSE 0,
                              !.motorEnabled = TRUE,
                              !.ocr = (8 * Addressed.stepInterval - 1) % UInt16,
                              !.planActive = FALSE,
                              !.planStepsDone = 0]
     /\ (pc \in LabelsM /\ pc' # pc /\ ~ax[loc.idx].useTrapezoid) =>
          /\ ax'[loc.idx].stepInterval = ax[loc.idx].stepInterval
          /\ ax'[loc.idx].currentSpeedSps = ax[loc.idx].currentSpeedSps
          /\ ax'[loc.idx].targetSpeedSps = ax[loc.idx].targetSpeedSps
          /\ ax'[loc.idx].accelerationSps2 = ax[loc.idx].accelerationSps2]_vars

\* a Start of 2 steps returns for the axis that ran at constant speed: it is
\* enabled with the speed fields it had and the timer programmed from its
\* stepInterval, 750 us
C29_Witness ==
  /\ pc = "ret"
  /\ loc.action = Chr("M")
  /\ loc.value = 2
  /\ ~ax[loc.idx].useTrapezoid
  /\ ax[loc.idx].motorEnabled
  /\ ax[loc.idx].remainingSteps = 2
  /\ ax[loc.idx].stepInterval = 750
  /\ ax[loc.idx].ocr = 5999
  /\ ax[loc.idx].currentSpeedSps = snap.currentSpeedSps
  /\ ~ax[loc.idx].planActive

\* ------------------------------------------------------------ direction and excitation
\* C30: a Set-direction (F, R) or excitation (E, D) command is handled in
\* every motion state and changes only the direction line (F high, R low) or
\* the excitation line (E low, D high) of the addressed axis: motorEnabled,
\* remainingSteps, the speeds, the acceleration, stepInterval, the pending
\* interval, the trapezoid flag, the plan and every other axis are as they
\* were, both for the handler as a whole and for its statement wherever the
\* timer interrupts fall.
C30_PinCommandsOnly ==
  [][/\ Dispatching("F") => Outcome("F") = [Addressed EXCEPT !.dirPin = HIGH]
     /\ Dispatching("R") => Outcome("R") = [Addressed EXCEPT !.dirPin = LOW]
     /\ Dispatching("E") => Outcome("E") = [Addressed EXCEPT !.enaPin = LOW]
     /\ Dispatching("D") => Outcome("D") = [Addressed EXCEPT !.enaPin = HIGH]
     /\ (\E c \in {"F", "R", "E", "D"} : Dispatching(c) /\ pc' # pc) =>
          pc' \in LabelsPin
     /\ (pc \in LabelsPin /\ pc' # pc) =>
          /\ pc' = "ret"
          /\ ax' = [ax EXCEPT ![loc.idx] =
                     CASE pc = "F_dir" -> [@ EXCEPT !.dirPin = HIGH]
                       [] pc = "R_dir" -> [@ EXCEPT !.dirPin = LOW]
                       [] pc = "E_ena" -> [@ EXCEPT !.enaPin = LOW]
                       [] pc = "D_ena" -> [@ EXCEPT !.enaPin = HIGH]]]_vars

\* a Disable has returned for the axis that runs a planned move: the
\* excitation line is high, and the axis is still enabled with its plan
\* active and steps remaining
C30_Witness ==
  /\ pc = "ret"
  /\ loc.action = Chr("D")
  /\ snap.planActive
  /\ snap.enaPin = LOW
  /\ ax[loc.idx].enaPin = HIGH
  /\ ax[loc.idx].motorEnabled
  /\ ax[loc.idx].planActive
  /\ ax[loc.idx].remainingSteps > 0

\* ------------------------------------------------------------ ticks of a disabled axis
\* C31: the timer interrupt of a disabled axis changes nothing of the axis:
\* the step output, stepHigh, remainingSteps, the plan progress,
\* currentSpeedSps, stepInterval, the compare register and the pending
\* interval (flag and value, so a queued interval is not consumed) are as
\* they were.
C31_DisabledTickNoOp ==
  \A i \in Axes : ~ax[i].motorEnabled => handleStep(ax[i]) = ax[i]

\* an axis stopped in the middle of a pulse with an interval queued, the
\* main loop idle and its timer still running
C31_Witness ==
  \E i \in Axes :
    /\ ~ax[i].motorEnabled
    /\ ax[i].stepHigh
    /\ ax[i].stepPin = HIGH
    /\ ax[i].pendingIntervalUpdate
    /\ ax[i].pendingIntervalUs > 0
    /\ pc = "loop"
    /\ ticksLeft # 0
    /\ ENABLED StepISR(i)

\* ------------------------------------------------------------ queued interval
\* C32: the timer interrupt that raises the step output of an enabled axis
\* with an interval queued leaves stepInterval at the queued value, the
\* compare register at the value of that interval and the pending flag
\* cleared.
C32_QueuedAppliedAtEdge ==
  [][\A i \in Axes :
       (/\ ax[i].motorEnabled
        /\ ax[i].pendingIntervalUpdate
        /\ pc' = pc
        /\ ~ax[i].stepHigh
        /\ ax'[i].stepHigh)
         => /\ ax'[i].stepInterval = ax[i].pendingIntervalUs
            /\ ax'[i].ocr = IsrOcr(ax[i].pendingIntervalUs)
            /\ ~ax'[i].pendingIntervalUpdate]_vars

\* ------------------------------------------------------------ byte stream
\* what the host puts on the line besides whole frames: a byte that is not
\* STX, a lone STX, the first four bytes of a frame, and a frame with one
\* digit too many
Noise ==
  {[bytes |-> <<Chr("A")>>, kind |-> "noise"],
   [bytes |-> <<STX>>, kind |-> "noise"],
   [bytes |-> SubSeq(HostFrame(1, Chr("S"), 0), 1, 4), kind |-> "noise"],
   [bytes |-> SubSeq(HostFrame(1, Chr("S"), 0), 1, 9) \o <<Chr("0")>>
                \o SubSeq(HostFrame(1, Chr("S"), 0), 10, FrameLen),
    kind |-> "noise"]}

StreamMenu == Noise \cup {Valid(1, "X", 0), Valid(2, "S", 0)}
StreamCmds == 3
StreamTicks == 1

\* axis 2 runs an unbounded move when the bytes arrive
StreamInit ==
  InitSys([PowerOn EXCEPT ![1] = Apply(AxisInit, "M", 0)], StreamMenu,
          StreamCmds, StreamTicks, NoCap)
StreamSpec == StreamInit /\ [][Next]_vars

\* loop() reads one byte
ReadsByte == pc = "loop" /\ rx # <<>> /\ rx' = Tail(rx)

\* C33: between iterations of loop() commandIndex is within 0..10, so every
\* byte stored goes to commandBuffer[0..10]; the idle parser drops every byte
\* other than 0x02 and stays idle; processCommand is called exactly when the
\* eleventh byte has been stored, once, and on its return the parser is
\* idle.
C33_ParserInBounds ==
  [][/\ pc = "loop" => commandIndex \in 0 .. (FrameLen - 1)
     /\ pc' = "loop" => commandIndex' \in 0 .. (FrameLen - 1)
     /\ (ReadsByte /\ commandIndex = 0 /\ Head(rx) # STX)
          => /\ commandIndex' = 0
             /\ commandBuffer' = commandBuffer
             /\ pc' = "loop"
     /\ (ReadsByte /\ (commandIndex # 0 \/ Head(rx) = STX))
          => /\ commandIndex' = commandIndex + 1
             /\ commandBuffer' = [commandBuffer EXCEPT ![commandIndex + 1] = Head(rx)]
             /\ pc' = IF commandIndex' = FrameLen THEN "dispatch" ELSE "loop"
     /\ (pc # "dispatch" /\ pc' = "dispatch")
          => (ReadsByte /\ commandIndex = FrameLen - 1)
     /\ (pc = "loop" /\ pc' # "loop") => pc' = "dispatch"
     /\ (pc # "loop" /\ pc' = "loop") => (pc = "ret" /\ commandIndex' = 0)]_vars

\* processCommand is called on eleven bytes of which the first were left by
\* what the host sent earlier, while bytes of what it sent last are unread
C33_Witness ==
  /\ pc = "dispatch"
  /\ commandIndex = FrameLen
  /\ ~inflight.idle
  /\ budget = 0
  /\ rx # <<>>

\* ------------------------------------------------------------ acceleration floor
\* axis 1 ramps toward 100 rpm in an unbounded move under trapezoid mode;
\* after 8 interrupts its speed is 506.63 steps/s, 0.04 steps/s under the
\* speed of 76 rpm
NearRpm == 76
AccelMenu == {Valid(1, "V", NearRpm), Valid(1, "V", 300), Valid(1, "M", 5)}
AccelTicks == 9
AccelCmds == 1

AccelInit ==
  InitSys([PowerOn EXCEPT ![0] = Apply(Apply(Apply(AxisInit, "A", 1), "V", 100), "M", 0)],
          AccelMenu, AccelCmds, AccelTicks, NoCap)
AccelSpec == AccelInit /\ [][Next]_vars

C35_PlanAccounts ==
  \A i \in Axes :
    (pc = "loop" /\ ax[i].planActive)
      => ax[i].planStepsDone + ax[i].remainingSteps = ax[i].planTotalSteps

\* ------------------------------------------------------------ resynchronisation
\* C36: once the eleven bytes of a valid frame have been read, processCommand
\* has been called on that frame exactly once, whatever the host sent before
\* it (a byte that is not STX, a lone STX, a truncated frame, a frame that is
\* too long).
C36_ValidFrameDispatched ==
  (inflight.kind = "valid" /\ Consumed) => inflight.hits = 1

\* ------------------------------------------------------------ serial output
SerialCmds == 1
SerialTicks == 1

\* axis 1 runs an unbounded move with a tachometer period of 100 ms; the
\* 1 ms timer stands at MsStart; a C or an X query may arrive
SerialInit ==
  InitCore([PowerOn EXCEPT ![0] = Apply(AxisInit, "M", 0)],
           [i \in Axes |-> IF i = 0 THEN 100 ELSE 0], TeleInit,
           [msCounter |-> MsStart, oneSecondCounter |-> MsStart \div 1000,
            debugLed |-> LOW],
           {Valid(1, "X", 0), Valid(2, "C", 0)}, SerialCmds, SerialTicks, NoCap)
SerialSpec == SerialInit /\ [][ClockNext]_vars

\* C37: the bytes sent on the serial line are whole replies of 10 bytes,
\* each framed as the reply to a C or X query; no other byte is sent between
\* or inside them.
C37_OnlyReplies ==
  /\ Len(tx) % RespLen = 0
  /\ \A k \in Replies : Framed(Reply(k))

\* ------------------------------------------------------------ compare value
\* speeds under the minimum start speed: 30 rpm is 200 steps/s (5000 us),
\* 1 rpm is 6.67 steps/s (150000 us)
SlowMenu ==
  {Valid(1, "V", 30), Valid(1, "V", SlowRpm), Valid(1, "V", 150), Valid(1, "M", 0),
   Valid(1, "A", 1)}
SlowCmds == 2
SlowTicks == 2

SlowInit == InitSys(PowerOn, SlowMenu, SlowCmds, SlowTicks, NoCap)
SlowSpec == SlowInit /\ [][Next]_vars

\* C38: every value written to the compare register of an axis is
\* 8 * stepInterval - 1 for the stepInterval the axis then holds, with no
\* wrap-around, and the value a Start writes through setupTimerN is the
\* value the scheduler would write for the same interval.
C38_CompareExact ==
  [][/\ \A i \in Axes :
          ax'[i].ocr # ax[i].ocr => ax'[i].ocr = (8 * ax'[i].stepInterval) - 1
     /\ (pc \in {"M_tim", "M_tim0"} /\ pc' # pc)
          => ax'[loc.idx].ocr = IsrOcr(ax[loc.idx].stepInterval)]_vars

\* ------------------------------------------------------------ excitation
\* C39: an enabled axis, whose timer interrupt toggles the step output, has
\* its excitation line ON (low) in every reachable state.
C39_EnergisedWhileStepping ==
  \A i \in Axes : ax[i].motorEnabled => ax[i].enaPin = LOW

====
